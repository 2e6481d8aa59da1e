--------------------------- MODULE ModelLoaderProofs ---------------------------
(* Proofs about ModelLoader, for every import graph, cyclic ones included    *)
(* where nothing else is said, and about ElementNames, whose steps are steps *)
(* of the loader: what its lists hold and which names come out.              *)
EXTENDS ElementNames, LoadStackProofs, FiniteSetTheorems, WellFoundedInduction

USE ImportGraphAssumption, ModelLoaderAssumption

Inv == TypeOK /\ graph \in ImportGraphs /\ LoaderInv

(* A nested load: the import at hand gets a call of its own. *)
LEMMA PushImport ==
  ASSUME TypeOK, HasImport, NextImport \in Readable
  PROVE  /\ Append(Advance(stack), Frame(NextImport)) \in Seq(Frames)
         /\ Append(Advance(stack), Frame(NextImport)) # <<>>
         /\ FilesOf(Append(Advance(stack), Frame(NextImport))) = OnStack \cup {NextImport}
<1>1. stack \in Seq(Frames) /\ stack # <<>>  BY DEF TypeOK, HasImport, HasNext
<1>2. Advance(stack) \in Seq(Frames) /\ FilesOf(Advance(stack)) = OnStack
  BY <1>1, AdvanceStack DEF OnStack
<1> QED  BY <1>2, PushStack

-----------------------------------------------------------------------------
(* Type correctness. *)
LEMMA InitType == Init => TypeOK
<1> SUFFICES ASSUME Init  PROVE TypeOK
  OBVIOUS
<1>1. graph \in [Files -> Seq(Files)]  BY DEF Init
<1>2. stack \in Seq(Frames)  BY DEF Init
<1>3. loads \in [Files -> Nat]  BY DEF Init
<1> QED  BY <1>1, <1>2, <1>3 DEF Init, TypeOK

LEMMA NextType == TypeOK /\ [Next]_vars => TypeOK'
<1> SUFFICES ASSUME TypeOK, [Next]_vars  PROVE TypeOK'
  OBVIOUS
<1> USE DEF TypeOK, maps
<1>1. ASSUME NEW r \in Files, Start(r)  PROVE TypeOK'
  <2>1. loads' \in [Files -> Nat]
    <3>1. CASE loads' = [f \in Files |-> 0]  BY <3>1
    <3>2. CASE loads' = [f \in Files |-> IF f = r THEN 1 ELSE 0]  BY <3>2
    <3>3. CASE loads' = [loads EXCEPT ![r] = @ + 1]  BY <3>3
    <3> QED  BY <1>1, <3>1, <3>2, <3>3 DEF Start, Throw, Read
  <2>2. stack' \in Seq(Frames)
    <3>1. ASSUME r \in Readable  PROVE <<Frame(r)>> \in Seq(Frames)
      <4>1. Frame(r) \in Frames  BY <3>1 DEF Frame, Frames
      <4> QED  BY <4>1
    <3>2. stack' = stack \/ stack' = <<>> \/ (r \in Readable /\ stack' = <<Frame(r)>>)
      BY <1>1 DEF Start, Throw
    <3>3. <<>> \in Seq(Frames) /\ stack \in Seq(Frames)  OBVIOUS
    <3> QED  BY <3>1, <3>2, <3>3
  <2>3. phase' \in {"idle", "loading", "loaded", "crashed"} /\ spoiled' \in BOOLEAN
    BY <1>1 DEF Start, Throw
  <2> QED  BY <1>1, <2>1, <2>2, <2>3 DEF Start
<1>2. CASE SkipImport
  BY <1>2, AdvanceStack DEF SkipImport, HasImport, HasNext
<1>3. CASE ImportNothing
  <2>1. NextImport \in Files  BY <1>3, ImportAtFile DEF ImportNothing, HasImport, NextImport
  <2>2. Advance(stack) \in Seq(Frames)
    BY <1>3, AdvanceStack DEF ImportNothing, HasImport, HasNext
  <2> QED  BY <1>3, <2>1, <2>2 DEF ImportNothing
<1>4. CASE ImportModel
  <2>1. NextImport \in Files  BY <1>4, ImportAtFile DEF ImportModel, HasImport, NextImport
  <2>2. stack' \in Seq(Frames)  BY <1>4, PushImport DEF ImportModel
  <2>3. loads' \in [Files -> Nat]  BY <1>4, <2>1 DEF ImportModel, Read
  <2> QED  BY <1>4, <2>1, <2>2, <2>3 DEF ImportModel
<1>5. CASE Overflow  BY <1>5 DEF Overflow
<1>6. CASE ImportThrows
  <2>1. NextImport \in Files  BY <1>6, ImportAtFile DEF ImportThrows, HasImport, NextImport
  <2>2. loads' \in [Files -> Nat]  BY <1>6, <2>1 DEF ImportThrows, Throw, Read
  <2> QED  BY <1>6, <2>1, <2>2 DEF ImportThrows, Throw
<1>7. CASE Return
  <2>1. stack' \in Seq(Frames)  BY <1>7, PopStack DEF Return
  <2>2. deploymentModels' \subseteq Fdepl \cup SpecFiles /\ fidlModels' \subseteq Fidl
        /\ specifications' \subseteq SpecFiles
        /\ phase' \in {"idle", "loading", "loaded", "crashed"}
    BY <1>7 DEF Return, RecordRoot, RecordImport
  <2> QED  BY <1>7, <2>1, <2>2 DEF Return
<1>8. CASE Generate  BY <1>8 DEF Generate
<1>9. CASE UNCHANGED vars  BY <1>9 DEF vars
<1>10. CASE NamingThrows
  <2>1. <<>> \in Seq(Frames)  OBVIOUS
  <2> QED  BY <1>10, <2>1 DEF NamingThrows, Throw
<1> QED  BY <1>1, <1>2, <1>3, <1>4, <1>5, <1>6, <1>7, <1>8, <1>9, <1>10 DEF Next, Load

(* Every state the loader reaches is well typed. *)
THEOREM LoaderType == Spec => []TypeOK
BY InitType, NextType, PTL DEF Spec

-----------------------------------------------------------------------------
LEMMA InitInv == Init => LoaderInv
BY DEF Init, LoaderInv, StackInv, maps

(* Where the calls are. *)
LEMMA NextStack == Inv /\ TypeOK' /\ [Next]_vars => StackInv'
<1> SUFFICES ASSUME Inv, TypeOK', [Next]_vars  PROVE StackInv'
  OBVIOUS
<1>a. TypeOK /\ StackInv /\ stack \in Seq(Frames)  BY DEF Inv, LoaderInv, TypeOK
<1>1. ASSUME NEW r \in Files, Start(r)  PROVE StackInv'
  <2>1. r \in Readable => <<Frame(r)>> # <<>> /\ <<Frame(r)>>[1].file = r  BY DEF Frame
  <2> QED  BY <1>1, <1>a, <2>1 DEF Start, Throw, StackInv
<1>2. ASSUME SkipImport \/ ImportNothing  PROVE StackInv'
  <2>1. stack # <<>> /\ stack' = Advance(stack) /\ phase = "loading"
        /\ phase' = phase /\ root' = root
    BY <1>2 DEF SkipImport, ImportNothing, HasImport, HasNext
  <2>2. stack' # <<>> /\ stack'[1].file = stack[1].file
    BY <1>a, <2>1, AdvanceStack, TopFrame
  <2> QED  BY <1>a, <2>1, <2>2 DEF StackInv
<1>3. CASE ImportModel
  <2>1. stack # <<>> /\ stack' = Append(Advance(stack), Frame(NextImport))
        /\ NextImport \in Readable /\ phase = "loading" /\ phase' = phase /\ root' = root
    BY <1>3 DEF ImportModel, HasImport, HasNext
  <2>2. Advance(stack) \in Seq(Frames) /\ Len(Advance(stack)) = Len(stack)
        /\ Advance(stack)[1].file = stack[1].file /\ Len(stack) \in Nat \ {0}
    BY <1>a, <2>1, AdvanceStack, TopFrame
  <2>3. stack' # <<>> /\ stack'[1] = Advance(stack)[1]
    BY <2>1, <2>2, PushStack
  <2> QED  BY <1>a, <2>1, <2>2, <2>3 DEF StackInv
<1>4. ASSUME Overflow \/ Generate \/ UNCHANGED vars  PROVE StackInv'
  BY <1>4, <1>a DEF Overflow, Generate, vars, StackInv, HasImport, HasNext
<1>5. CASE ImportThrows \/ NamingThrows
  BY <1>5 DEF ImportThrows, NamingThrows, Throw, StackInv
<1>6. CASE Return
  <2>1. stack # <<>> /\ stack' = Pop(stack) /\ phase = "loading" /\ root' = root
    BY <1>6 DEF Return
  <2>2. Len(stack) \in Nat \ {0} /\ Len(stack') = Len(stack) - 1 /\ stack' \in Seq(Frames)
        /\ \A i \in 1 .. Len(stack) - 1 : stack'[i] = stack[i]
    BY <1>a, <2>1, PopStack, TopFrame
  <2>3. CASE Len(stack) = 1
    <3>1. stack' = <<>>  BY <2>2, <2>3
    <3> QED  BY <1>6, <1>a, <2>1, <2>3, <3>1 DEF Return, StackInv
  <2>4. CASE Len(stack) # 1
    <3>1. stack' # <<>> /\ stack'[1] = stack[1]  BY <2>2, <2>4
    <3> QED  BY <1>6, <1>a, <2>1, <2>4, <3>1 DEF Return, StackInv
  <2> QED  BY <2>3, <2>4
<1> QED  BY <1>1, <1>2, <1>3, <1>4, <1>5, <1>6 DEF Next, Load

(* What holds of an unspoiled state. *)
CleanInv ==
  /\ phase \in {"idle", "loaded"} => importsLoadedList \subseteq Missing
  /\ phase = "idle" => deploymentModels \cup fidlModels = {}
  /\ phase # "idle" => SeenInv
  /\ phase = "loaded" => root \in Seen \cup Missing

LEMMA CleanPart == LoaderInv <=> StackInv /\ (~spoiled => CleanInv)
BY DEF LoaderInv, CleanInv

(* The call with r, right after Start(r), that reads it. *)
LEMMA StartSeen ==
  ASSUME Inv, ~spoiled, NEW r \in Files, Start(r), ~spoiled'
  PROVE  CleanInv'
<1> USE DEF maps
<1>a. TypeOK /\ CleanInv /\ phase = "idle" /\ stack = <<>>
  BY CleanPart DEF Inv, Start, LoaderInv, StackInv
<1>1. deploymentModels' = {} /\ fidlModels' = {} /\ ~Known(r)
      /\ importsLoadedList' \subseteq Missing \cup {r} /\ root' = r /\ graph' = graph
  BY <1>a DEF CleanInv, Known, Start
<1>2. r \in Needed(graph, r)  BY NeededRoot
<1>3. CASE r \in Missing
  <2>1. loads' = [f \in Files |-> 0] /\ phase' = "loaded" /\ stack' = <<>>
    BY <1>a, <1>1, <1>3 DEF Start, Readable
  <2>2. Seen' = {} /\ OnStack' = {} /\ DoneIn(graph, stack', Seen' \cup Missing)
    BY <2>1 DEF Seen, OnStack, FilesOf, DoneIn
  <2>3. importsLoadedList' \subseteq Missing  BY <1>1, <1>3
  <2>4. SeenInv'  BY <1>1, <2>1, <2>2, <2>3 DEF SeenInv
  <2> QED  BY <1>1, <1>3, <2>1, <2>3, <2>4 DEF CleanInv
<1>4. CASE r \notin Missing
  <2>1. loads' = [f \in Files |-> IF f = r THEN 1 ELSE 0] /\ phase' = "loading"
        /\ stack' = <<Frame(r)>> /\ r \in Readable
    BY <1>a, <1>1, <1>4 DEF Start, Throw
  <2>2. Seen' = {r}  BY <2>1 DEF Seen
  <2>3. <<>> \in Seq(Frames) /\ stack' = Append(<<>>, Frame(r))
        /\ FilesOf(<<>>) = {} /\ DoneIn(graph, <<>>, {}) /\ graph \in [Files -> Seq(Files)]
    BY <2>1, <1>a DEF FilesOf, DoneIn, TypeOK
  <2>4. OnStack' = {r}
    <3>1. FilesOf(Append(<<>>, Frame(r))) = FilesOf(<<>>) \cup {r}  BY <2>1, <2>3, PushStack
    <3>2. OnStack' = FilesOf(stack')  BY DEF OnStack
    <3> QED  BY <2>3, <3>1, <3>2
  <2>5. DoneIn(graph, stack', Seen' \cup Missing)
    <3>1. DoneIn(graph, Append(<<>>, Frame(r)), Seen' \cup Missing)
      BY <2>1, <2>3, PushDone
    <3> QED  BY <2>3, <3>1
  <2>6. SeenInv'  BY <1>1, <1>2, <2>1, <2>2, <2>4, <2>5 DEF SeenInv
  <2> QED  BY <2>1, <2>6 DEF CleanInv
<1> QED  BY <1>3, <1>4

(* A turn of the import loop that calls nothing, or a call that returns null.*)
LEMMA AdvanceSeen ==
  ASSUME Inv, ~spoiled, SkipImport \/ ImportNothing
  PROVE  CleanInv'
<1>a. TypeOK /\ CleanInv /\ phase = "loading" /\ SeenInv /\ HasNext(graph, stack)
      /\ graph \in [Files -> Seq(Files)] /\ stack \in Seq(Frames) /\ stack # <<>>
  BY CleanPart DEF Inv, TypeOK, SkipImport, ImportNothing, HasImport, HasNext, CleanInv
<1>1. /\ stack' = Advance(stack) /\ graph' = graph /\ root' = root /\ loads' = loads
      /\ UNCHANGED maps /\ phase' = phase
  BY DEF SkipImport, ImportNothing
<1>2. Seen' = Seen /\ OnStack' = OnStack  BY <1>a, <1>1, AdvanceStack DEF Seen, OnStack
<1>3. NextImport \in Seen \cup Missing
  <2>1. CASE SkipImport  BY <2>1, <1>a DEF SkipImport, SeenInv
  <2>2. CASE ImportNothing  BY <2>2, <1>a DEF ImportNothing, SeenInv, Known
  <2> QED  BY <2>1, <2>2
<1>4. DoneIn(graph, stack', Seen \cup Missing)
  BY <1>a, <1>1, <1>3, AdvanceDone DEF SeenInv, NextImport
<1>5. importsLoadedList' \subseteq Seen \cup Missing
  BY <1>a, <1>3 DEF SkipImport, ImportNothing, SeenInv
<1>6. SeenInv'  BY <1>a, <1>1, <1>2, <1>4, <1>5 DEF SeenInv, maps, Known
<1> QED  BY <1>a, <1>1, <1>6 DEF CleanInv

(* A nested call that reads its file. *)
LEMMA PushSeen ==
  ASSUME Inv, ~spoiled, ImportModel
  PROVE  CleanInv'
<1> DEFINE f == NextImport
<1>a. TypeOK /\ CleanInv /\ phase = "loading" /\ SeenInv /\ HasImport /\ HasNext(graph, stack)
      /\ graph \in [Files -> Seq(Files)] /\ stack \in Seq(Frames) /\ stack # <<>>
      /\ root \in Files
  BY CleanPart DEF Inv, TypeOK, ImportModel, HasImport, HasNext, CleanInv, LoaderInv, StackInv
<1>1. /\ stack' = Append(Advance(stack), Frame(f)) /\ graph' = graph /\ root' = root
      /\ UNCHANGED maps /\ phase' = phase /\ f \in Readable
      /\ importsLoadedList' = importsLoadedList \cup {f}
      /\ loads' = [loads EXCEPT ![f] = @ + 1]
  BY DEF ImportModel, Read
<1>2. f \in Files /\ f \in Imported(graph, Top(stack).file)
  BY <1>a, ImportAtFile DEF NextImport
<1>3. Seen' = Seen \cup {f}  BY <1>1, <1>2, <1>a DEF Seen, TypeOK
<1>4. OnStack' = OnStack \cup {f}  BY <1>a, <1>1, PushImport DEF OnStack
<1>5. f \in Needed(graph, root)
  <2>1. Top(stack).file \in OnStack  BY <1>a, TopFrame DEF OnStack
  <2>2. Top(stack).file \in Needed(graph, root)  BY <2>1, <1>a DEF SeenInv
  <2> QED  BY <2>2, <1>a, <1>2, NeededClosed
<1>6. DoneIn(graph, stack', Seen' \cup Missing)
  <2>1. Advance(stack) \in Seq(Frames)  BY <1>a, AdvanceStack
  <2>2. DoneIn(graph, Advance(stack), Seen' \cup Missing)
    BY <1>a, <1>3, AdvanceDone DEF SeenInv, NextImport
  <2> QED  BY <1>a, <1>1, <2>1, <2>2, PushDone
<1>7. SeenInv'
  BY <1>a, <1>1, <1>3, <1>4, <1>5, <1>6 DEF SeenInv, maps, Known
<1> QED  BY <1>a, <1>1, <1>7 DEF CleanInv

(* A return, to a caller that records the model or to doGenerate(). *)
LEMMA PopSeen ==
  ASSUME Inv, ~spoiled, Return
  PROVE  CleanInv'
<1> DEFINE f == Top(stack).file
<1>a. TypeOK /\ CleanInv /\ phase = "loading" /\ SeenInv /\ ~HasNext(graph, stack)
      /\ graph \in [Files -> Seq(Files)] /\ stack \in Seq(Frames) /\ stack # <<>>
      /\ stack[1].file = root
  BY CleanPart DEF Inv, TypeOK, Return, HasImport, CleanInv, LoaderInv, StackInv
<1>1. /\ stack' = Pop(stack) /\ graph' = graph /\ root' = root /\ loads' = loads
      /\ importsLoadedList' = {}
  BY DEF Return
<1>2. Seen' = Seen /\ OnStack = OnStack' \cup {f}
  BY <1>a, <1>1, PopStack DEF Seen, OnStack
<1>3. f \in Readable /\ f \in Seen  BY <1>a, <1>2, TopFrame DEF SeenInv
<1>4. Imported(graph, f) \subseteq Seen \cup Missing
  BY <1>a, DoneIsAll DEF SeenInv
<1>5. DoneIn(graph, stack', Seen \cup Missing)  BY <1>a, <1>1, PopDone DEF SeenInv
<1>6. \A h \in Seen \ OnStack' : h \in Seen \ OnStack \/ h = f  BY <1>2
<1>7. CASE Len(stack) = 1
  <2>1. f = root  BY <1>a, <1>7, TopFrame
  <2>2. phase' = "loaded" /\ RecordRoot(f)  BY <1>7 DEF Return
  <2>3. deploymentModels' \cup fidlModels' \subseteq Seen
        /\ deploymentModels' \cap SpecFiles = Seen \cap {root} \cap SpecFiles
    BY <1>a, <1>3, <2>1, <2>2 DEF RecordRoot, SeenInv
  <2>4. \A h \in Seen \ OnStack' :
          /\ h \in SpecFiles /\ h # root => h \in specifications'
          /\ h \notin SpecFiles => h \in deploymentModels' \cup fidlModels'
    BY <1>a, <1>3, <1>6, <2>1, <2>2 DEF RecordRoot, SeenInv, Known, Readable
  <2>5. SeenInv'
    BY <1>a, <1>1, <1>2, <1>4, <1>5, <1>6, <2>2, <2>3, <2>4 DEF SeenInv, Known
  <2> QED  BY <1>1, <1>2, <1>3, <2>1, <2>2, <2>5 DEF CleanInv
<1>8. CASE Len(stack) # 1
  <2>1. phase' = "loading" /\ RecordImport(f)  BY <1>a, <1>8 DEF Return
  <2>2. deploymentModels' \cup fidlModels' \subseteq Seen /\ deploymentModels' \cap SpecFiles = {}
    BY <1>a, <1>3, <2>1 DEF RecordImport, SeenInv
  <2>3. \A h \in Seen \ OnStack' :
          /\ h \in SpecFiles /\ h # root => h \in specifications'
          /\ h \notin SpecFiles => h \in deploymentModels' \cup fidlModels'
    BY <1>a, <1>3, <1>6, <2>1 DEF RecordImport, SeenInv, Known, Readable
  <2>4. SeenInv'
    BY <1>a, <1>1, <1>2, <1>4, <1>5, <1>6, <2>1, <2>2, <2>3 DEF SeenInv, Known
  <2> QED  BY <2>1, <2>4 DEF CleanInv
<1> QED  BY <1>7, <1>8

LEMMA NextInv == Inv /\ TypeOK' /\ [Next]_vars => Inv'
<1> SUFFICES ASSUME Inv, TypeOK', [Next]_vars  PROVE Inv'
  OBVIOUS
<1>a. graph' \in ImportGraphs
  BY DEF Inv, Next, Load, Start, SkipImport, ImportNothing, ImportModel, Overflow,
         ImportThrows, NamingThrows, Return, Generate, vars
<1> SUFFICES ASSUME ~spoiled'  PROVE CleanInv'
  BY <1>a, NextStack, CleanPart DEF Inv, CleanInv, LoaderInv, StackInv
<1> USE DEF maps
<1>1. ASSUME NEW r \in Files, Start(r)  PROVE CleanInv'
  <2>1. ~spoiled  BY <1>1 DEF Start, Throw
  <2> QED  BY <1>1, <2>1, StartSeen
<1>2. CASE SkipImport \/ ImportNothing
  <2>1. ~spoiled  BY <1>2 DEF SkipImport, ImportNothing
  <2> QED  BY <1>2, <2>1, AdvanceSeen
<1>3. CASE ImportModel
  <2>1. ~spoiled  BY <1>3 DEF ImportModel
  <2> QED  BY <1>3, <2>1, PushSeen
<1>4. CASE ImportThrows \/ NamingThrows  BY <1>4 DEF ImportThrows, NamingThrows, Throw
<1>5. CASE Return
  <2>1. ~spoiled  BY <1>5 DEF Return
  <2> QED  BY <1>5, <2>1, PopSeen
<1>6. CASE Overflow
  <2>1. ~spoiled /\ phase = "loading" /\ phase' = "crashed" /\ Seen' = Seen /\ OnStack' = OnStack
    BY <1>6 DEF Overflow, HasImport, Seen, OnStack
  <2>2. SeenInv  BY <2>1, CleanPart DEF Inv, CleanInv
  <2>3. SeenInv'  BY <1>6, <2>1, <2>2 DEF Overflow, SeenInv, Known
  <2> QED  BY <2>1, <2>3 DEF CleanInv
<1>7. CASE Generate
  <2>1. phase = "loaded" /\ phase' = "idle" /\ deploymentModels' = {} /\ fidlModels' = {}
        /\ importsLoadedList' = importsLoadedList
    BY <1>7 DEF Generate
  <2>2. importsLoadedList \subseteq Missing
    <3>1. CASE spoiled  BY <3>1, <1>7 DEF Generate
    <3>2. CASE ~spoiled  BY <3>2, <2>1, CleanPart DEF Inv, CleanInv
    <3> QED  BY <3>1, <3>2
  <2> QED  BY <2>1, <2>2 DEF CleanInv
<1>8. CASE UNCHANGED vars
  <2>1. ~spoiled /\ Seen' = Seen /\ OnStack' = OnStack  BY <1>8 DEF vars, Seen, OnStack
  <2>2. CleanInv  BY <2>1, CleanPart DEF Inv
  <2> QED  BY <1>8, <2>1, <2>2 DEF vars, CleanInv, SeenInv, Known
<1> QED  BY <1>1, <1>2, <1>3, <1>4, <1>5, <1>6, <1>7, <1>8 DEF Next, Load

(* Whatever is loaded, in whatever order, and however a load has ended. *)
THEOREM LoaderInvariant == Spec => []LoaderInv
<1>1. Init => Inv  BY InitType, InitInv DEF Inv, Init
<1>2. Inv /\ [Next]_vars => Inv'
  <2>1. Inv => TypeOK  BY DEF Inv
  <2> QED  BY <2>1, NextType, NextInv
<1>3. Inv => LoaderInv  BY DEF Inv
<1> QED  BY <1>1, <1>2, <1>3, PTL DEF Spec

(* When the last call has returned, what was read is what is needed. *)
LEMMA NeededIsSeen ==
  ASSUME Inv, ~spoiled, phase = "loaded"
  PROVE  /\ Seen = Needed(graph, root) \cap Readable
         /\ deploymentModels \cup fidlModels =
              Needed(graph, root) \cap (Fidl \cup Fdepl \cup ({root} \cap SpecFiles))
         /\ (Needed(graph, root) \cap SpecFiles) \ {root} \subseteq specifications
<1>a. TypeOK /\ CleanInv /\ SeenInv /\ stack = <<>> /\ root \in Seen \cup Missing
      /\ graph \in ImportGraphs /\ root \in Files
  BY CleanPart DEF Inv, CleanInv, LoaderInv, StackInv
<1>1. OnStack = {}  BY <1>a DEF OnStack, FilesOf
<1>2. Closed(graph, Seen \cup Missing)
  <2>1. \A f \in Missing : Imported(graph, f) = {}  BY <1>a, UnreadableLeaf
  <2>2. \A f \in Seen : Imported(graph, f) \subseteq Seen \cup Missing
    BY <1>a, <1>1 DEF SeenInv
  <2> QED  BY <2>1, <2>2 DEF Closed
<1>3. Seen \cup Missing \in SUBSET Files  BY DEF Seen, Files
<1>4. Needed(graph, root) \subseteq Seen \cup Missing
  BY <1>a, <1>2, <1>3, NeededLeast
<1>5. Seen = Needed(graph, root) \cap Readable
  BY <1>a, <1>4 DEF SeenInv, Readable
<1>6. \A f \in Seen : /\ f \in SpecFiles /\ f # root => f \in specifications
                      /\ f \notin SpecFiles => Known(f)
  BY <1>a, <1>1 DEF SeenInv
<1>7. deploymentModels \cup fidlModels \subseteq Seen
      /\ deploymentModels \cap SpecFiles = Seen \cap {root} \cap SpecFiles
      /\ fidlModels \cap SpecFiles = {}
  BY <1>a DEF SeenInv, TypeOK
<1>8. deploymentModels \cup fidlModels =
        Seen \cap (Fidl \cup Fdepl \cup ({root} \cap SpecFiles))
  <2>1. ASSUME NEW f \in deploymentModels \cup fidlModels
        PROVE  f \in Seen \cap (Fidl \cup Fdepl \cup ({root} \cap SpecFiles))
    BY <1>a, <1>7, <2>1 DEF TypeOK
  <2>2. ASSUME NEW f \in Seen \cap (Fidl \cup Fdepl \cup ({root} \cap SpecFiles))
        PROVE  f \in deploymentModels \cup fidlModels
    BY <1>6, <1>7, <2>2 DEF Known
  <2> QED  BY <2>1, <2>2
<1>9. (Needed(graph, root) \cap SpecFiles) \ {root} \subseteq specifications
  <2> SUFFICES ASSUME NEW f \in Needed(graph, root), f \in SpecFiles, f # root
               PROVE  f \in specifications
    OBVIOUS
  <2>1. f \in Seen  BY <1>5 DEF Readable
  <2> QED  BY <1>6, <2>1
<1>10. Seen \cap (Fidl \cup Fdepl \cup ({root} \cap SpecFiles)) =
         Needed(graph, root) \cap (Fidl \cup Fdepl \cup ({root} \cap SpecFiles))
  BY <1>5 DEF Readable
<1> QED  BY <1>5, <1>8, <1>9, <1>10

(* Code is generated from exactly the models that the input needs, on every   *)
(* graph and after any inputs that came through.  Exempt are the calls after  *)
(* one that threw, whose list and maps doGenerate() still finds (spoiled):    *)
(* until one of them ends with an empty list nothing is claimed.              *)
THEOREM LoaderLoadsNeeded == Spec => []LoadedIsNeeded
<1>1. Init => Inv  BY InitType, InitInv DEF Inv, Init
<1>2. Inv /\ [Next]_vars => Inv'
  <2>1. Inv => TypeOK  BY DEF Inv
  <2> QED  BY <2>1, NextType, NextInv
<1>3. Inv => LoadedIsNeeded  BY NeededIsSeen DEF LoadedIsNeeded
<1> QED  BY <1>1, <1>2, <1>3, PTL DEF Spec

-----------------------------------------------------------------------------
(* Without cycles every call is for a file that all the calls around it need *)
(* and that needs none of them.                                              *)

LEMMA AdvanceNested ==
  ASSUME NEW g, NEW s \in Seq(Frames), s # <<>>, Nested(g, s)
  PROVE  Nested(g, Advance(s))
<1> DEFINE t == Advance(s)
<1>1. Len(t) = Len(s) /\ \A i \in 1 .. Len(s) : t[i].file = s[i].file  BY AdvanceStack
<1> HIDE DEF t
<1>2. Nested(g, t)  BY <1>1 DEF Nested
<1> QED  BY <1>2 DEF t

LEMMA PopNested ==
  ASSUME NEW g, NEW s \in Seq(Frames), s # <<>>, Nested(g, s)
  PROVE  Nested(g, Pop(s))
<1> DEFINE t == Pop(s)
<1>1. Len(s) \in Nat \ {0} /\ Len(t) = Len(s) - 1
      /\ \A i \in 1 .. Len(s) - 1 : t[i] = s[i]
  BY PopStack, TopFrame
<1> HIDE DEF t
<1>2. \A i \in 1 .. Len(t) : i \in 1 .. Len(s) /\ t[i] = s[i]  BY <1>1
<1>3. Nested(g, t)  BY <1>2 DEF Nested
<1> QED  BY <1>3 DEF t

(* The import at hand is below every call on the stack. *)
LEMMA ImportBelow ==
  ASSUME NEW g \in [Files -> Seq(Files)], NEW s \in Seq(Frames), HasNext(g, s),
         Nested(g, s), NEW i \in 1 .. Len(s)
  PROVE  ImportAt(g, s) \in Below(g, s[i].file)
<1> DEFINE f == ImportAt(g, s)
<1>1. s # <<>>  BY DEF HasNext
<1>2. f \in Imported(g, Top(s).file) /\ f \in Files  BY ImportAtFile
<1>3. Len(s) \in Nat \ {0} /\ Top(s) = s[Len(s)]  BY <1>1, TopFrame
<1> HIDE DEF f
<1>4. CASE i = Len(s)
  <2>1. f \in Needed(g, f)  BY <1>2, NeededRoot
  <2> QED  BY <1>2, <1>3, <1>4, <2>1 DEF Below, f
<1>5. CASE i < Len(s)
  <2>1. Top(s).file \in Below(g, s[i].file)  BY <1>3, <1>5 DEF Nested
  <2>2. PICK h \in Imported(g, s[i].file) : Top(s).file \in Needed(g, h)  BY <2>1 DEF Below
  <2>3. s[i].file \in Files  BY <1>1, TopFrame DEF Readable, Files
  <2>4. h \in Files  BY <2>2, <2>3, ImportedFiles
  <2>5. f \in Needed(g, h)  BY <1>2, <2>2, <2>4, NeededClosed
  <2> QED  BY <1>2, <2>2, <2>5 DEF Below, f
<1> QED  BY <1>3, <1>4, <1>5

LEMMA PushNested ==
  ASSUME NEW g \in [Files -> Seq(Files)], NEW s \in Seq(Frames), HasNext(g, s),
         Nested(g, s), ImportAt(g, s) \in Readable
  PROVE  Nested(g, Append(Advance(s), Frame(ImportAt(g, s))))
<1> DEFINE f == ImportAt(g, s)
           t == Append(Advance(s), Frame(f))
<1>1. s # <<>>  BY DEF HasNext
<1>2. Len(Advance(s)) = Len(s) /\ Advance(s) \in Seq(Frames)
      /\ \A i \in 1 .. Len(s) : Advance(s)[i].file = s[i].file
  BY <1>1, AdvanceStack
<1>3. Len(t) = Len(s) + 1 /\ t[Len(s) + 1] = Frame(f)
      /\ \A i \in 1 .. Len(s) : t[i] = Advance(s)[i]
  BY <1>2, PushStack
<1>4. \A i \in 1 .. Len(s) : t[i].file = s[i].file  BY <1>2, <1>3
<1>5. \A i \in 1 .. Len(s) : f \in Below(g, s[i].file)  BY ImportBelow
<1>6. t[Len(s) + 1].file = f  BY <1>3 DEF Frame
<1>7. Len(s) \in Nat \ {0}  BY <1>1, TopFrame
<1> HIDE DEF t, f
<1>8. ASSUME NEW j \in 1 .. Len(t), NEW i \in 1 .. Len(t), i < j
      PROVE  t[j].file \in Below(g, t[i].file)
  <2>1. i \in 1 .. Len(s)  BY <1>3, <1>7, <1>8
  <2>2. CASE j = Len(s) + 1  BY <2>1, <2>2, <1>4, <1>5, <1>6
  <2>3. CASE j # Len(s) + 1
    <3>1. j \in 1 .. Len(s)  BY <1>3, <1>7, <2>3
    <3> QED  BY <1>4, <1>8, <2>1, <3>1 DEF Nested
  <2> QED  BY <2>2, <2>3
<1>9. Nested(g, t)  BY <1>8 DEF Nested
<1> QED  BY <1>9 DEF t, f

LEMMA ImportFresh ==
  ASSUME NEW g \in [Files -> Seq(Files)], NEW s \in Seq(Frames), HasNext(g, s),
         Nested(g, s), Acyclic(g)
  PROVE  ImportAt(g, s) \notin FilesOf(s)
<1> SUFFICES ASSUME NEW i \in 1 .. Len(s), ImportAt(g, s) = s[i].file  PROVE FALSE
  BY DEF FilesOf
<1>1. ImportAt(g, s) \in Below(g, ImportAt(g, s)) /\ ImportAt(g, s) \in Files
  BY ImportBelow, ImportAtFile
<1> QED  BY <1>1 DEF Below, Acyclic

(* A model that has been read is in a map or still being loaded. *)
OnceInv ==
  /\ Nested(graph, stack)
  /\ \A f \in Fidl \cup Fdepl : loads[f] <= 1
  /\ phase # "idle" =>
       \A f \in Fidl \cup Fdepl : loads[f] = 0 \/ Known(f) \/ f \in OnStack

LEMMA NextOnce ==
  ASSUME Inv, OnceInv, [Next]_vars, Acyclic(graph)
  PROVE  OnceInv'
<1> USE DEF maps
<1>a. TypeOK /\ StackInv /\ graph \in [Files -> Seq(Files)] /\ stack \in Seq(Frames)
      /\ loads \in [Files -> Nat]
  BY DEF Inv, TypeOK, LoaderInv
<1>b. \A f \in Fidl \cup Fdepl : f \in Files /\ f \notin Empty  BY DEF Files
<1> SUFFICES /\ Nested(graph', stack')
             /\ \A f \in Fidl \cup Fdepl : loads'[f] <= 1
             /\ phase' # "idle" =>
                  \A f \in Fidl \cup Fdepl :
                    loads'[f] = 0 \/ f \in deploymentModels' \cup fidlModels' \/ f \in OnStack'
  BY DEF OnceInv, Known
<1>1. ASSUME NEW r \in Files, Start(r)
      PROVE /\ Nested(graph', stack')
            /\ \A f \in Fidl \cup Fdepl : loads'[f] <= 1
            /\ phase' # "idle" =>
                 \A f \in Fidl \cup Fdepl :
                   loads'[f] = 0 \/ f \in deploymentModels' \cup fidlModels' \/ f \in OnStack'
  <2>0. stack = <<>> /\ graph' = graph  BY <1>1, <1>a DEF Start, StackInv
  <2>e. Nested(graph, <<>>)  BY DEF Nested
  <2>1. CASE phase' = "loaded"
    <3>1. loads' = [f \in Files |-> 0] /\ stack' = <<>>
      BY <1>1, <2>0, <2>1 DEF Start, Throw
    <3> QED  BY <2>0, <2>e, <3>1, <1>b
  <2>2. CASE phase' = "loading"
    <3>1. loads' = [f \in Files |-> IF f = r THEN 1 ELSE 0] /\ stack' = <<Frame(r)>>
      BY <1>1, <2>2 DEF Start, Throw
    <3>2. \A f \in Fidl \cup Fdepl : loads'[f] <= 1 /\ (loads'[f] = 0 \/ f = r)
      BY <3>1, <1>b
    <3>3. OnStack' = FilesOf(stack')  BY DEF OnStack
    <3>4. r \in OnStack'  BY <3>1, <3>3 DEF FilesOf, Frame
    <3>5. Nested(graph, stack')  BY <3>1 DEF Nested
    <3> QED  BY <2>0, <3>2, <3>4, <3>5
  <2>3. CASE phase' = "idle"
    <3>1. r \in Empty /\ loads' = [loads EXCEPT ![r] = @ + 1] /\ stack' = <<>>
      BY <1>1, <2>3 DEF Start, Throw, Read
    <3> QED  BY <2>0, <2>3, <2>e, <3>1, <1>a, <1>b DEF OnceInv
  <2> QED  BY <1>1, <2>1, <2>2, <2>3 DEF Start, Throw
<1>2. ASSUME SkipImport \/ ImportNothing
      PROVE /\ Nested(graph', stack')
            /\ \A f \in Fidl \cup Fdepl : loads'[f] <= 1
            /\ phase' # "idle" =>
                 \A f \in Fidl \cup Fdepl :
                   loads'[f] = 0 \/ f \in deploymentModels' \cup fidlModels' \/ f \in OnStack'
  <2>1. stack # <<>> /\ stack' = Advance(stack) /\ graph' = graph /\ loads' = loads
        /\ phase' = phase /\ UNCHANGED maps
    BY <1>2 DEF SkipImport, ImportNothing, HasImport, HasNext
  <2>2. Nested(graph, stack')  BY <2>1, <1>a, AdvanceNested DEF OnceInv
  <2>3. OnStack' = OnStack  BY <2>1, <1>a, AdvanceStack DEF OnStack
  <2> QED  BY <2>1, <2>2, <2>3 DEF OnceInv, Known
<1>3. CASE ImportModel
  <2> DEFINE f == NextImport
  <2>1. HasNext(graph, stack) /\ f \in Readable /\ ~Known(f) /\ phase = "loading"
        /\ phase' = phase /\ graph' = graph /\ UNCHANGED maps
        /\ stack' = Append(Advance(stack), Frame(f))
        /\ loads' = [loads EXCEPT ![f] = @ + 1] /\ HasImport
    BY <1>3 DEF ImportModel, HasImport, Read
  <2>2. Nested(graph, stack')  BY <2>1, <1>a, PushNested DEF OnceInv, NextImport
  <2>3. f \notin OnStack  BY <2>1, <1>a, ImportFresh DEF OnceInv, NextImport, OnStack
  <2>4. OnStack' = OnStack \cup {f}  BY <2>1, <1>a, PushImport DEF OnStack
  <2>5. f \in Fidl \cup Fdepl => loads[f] = 0  BY <2>1, <2>3 DEF OnceInv
  <2> HIDE DEF f
  <2>6. \A h \in Fidl \cup Fdepl : loads'[h] <= 1 /\ (loads'[h] = loads[h] \/ h = f)
    BY <2>1, <2>5, <1>a, <1>b DEF OnceInv
  <2>7. \A h \in Fidl \cup Fdepl :
          loads'[h] = 0 \/ h \in deploymentModels' \cup fidlModels' \/ h \in OnStack'
    BY <2>1, <2>4, <2>6 DEF OnceInv, Known
  <2> QED  BY <2>1, <2>2, <2>6, <2>7
<1>4. CASE ImportThrows
  <2>1. NextImport \in Empty /\ loads' = [loads EXCEPT ![NextImport] = @ + 1]
        /\ stack' = <<>> /\ phase' = "idle" /\ graph' = graph
    BY <1>4 DEF ImportThrows, Throw, Read
  <2>2. Nested(graph, <<>>)  BY DEF Nested
  <2> QED  BY <2>1, <2>2, <1>a, <1>b DEF OnceInv
<1>5. CASE Return
  <2> DEFINE f == Top(stack).file
  <2>1. stack # <<>> /\ stack' = Pop(stack) /\ graph' = graph /\ loads' = loads
        /\ phase = "loading"
    BY <1>5 DEF Return
  <2>2. Nested(graph, stack')  BY <2>1, <1>a, PopNested DEF OnceInv
  <2>3. OnStack = OnStack' \cup {f}  BY <2>1, <1>a, PopStack DEF OnStack
  <2>4. RecordRoot(f) \/ RecordImport(f)  BY <1>5 DEF Return
  <2> HIDE DEF f
  <2>5. deploymentModels \cup fidlModels \subseteq deploymentModels' \cup fidlModels'
        /\ (f \in Fidl \cup Fdepl => f \in deploymentModels' \cup fidlModels')
    BY <2>4 DEF RecordRoot, RecordImport
  <2>6. \A h \in Fidl \cup Fdepl :
          loads'[h] = 0 \/ h \in deploymentModels' \cup fidlModels' \/ h \in OnStack'
    BY <2>1, <2>3, <2>5 DEF OnceInv, Known
  <2> QED  BY <2>1, <2>2, <2>6 DEF OnceInv
<1>6. CASE Overflow
  <2>1. OnStack' = OnStack  BY <1>6 DEF Overflow, OnStack
  <2> QED  BY <1>6, <2>1 DEF Overflow, OnceInv, HasImport, Known
<1>7. CASE Generate  BY <1>7 DEF Generate, OnceInv
<1>8. CASE UNCHANGED vars
  <2>1. OnStack' = OnStack  BY <1>8 DEF vars, OnStack
  <2> QED  BY <1>8, <2>1 DEF vars, OnceInv, Known
<1>9. CASE NamingThrows
  <2>1. loads' = loads /\ stack' = <<>> /\ phase' = "idle" /\ graph' = graph
    BY <1>9 DEF NamingThrows, Throw
  <2>2. Nested(graph, <<>>)  BY DEF Nested
  <2> QED  BY <1>9, <2>1, <2>2 DEF NamingThrows, OnceInv
<1> QED  BY <1>1, <1>2, <1>3, <1>4, <1>5, <1>6, <1>7, <1>8, <1>9 DEF Next, Load

(* Where no file needs itself, no model is read twice. *)
THEOREM LoaderLoadsOnce == Spec => []LoadedOnce
<1> DEFINE Once == Acyclic(graph) => OnceInv
<1>1. Init => Inv /\ Once
  <2> SUFFICES ASSUME Init  PROVE OnceInv
    BY InitType, InitInv DEF Inv, Init
  <2>1. Nested(graph, stack)  BY DEF Init, Nested
  <2>2. \A f \in Fidl \cup Fdepl : f \in Files  BY DEF Files
  <2> QED  BY <2>1, <2>2 DEF Init, OnceInv
<1>2. Inv /\ Once /\ [Next]_vars => (Inv /\ Once)'
  <2> SUFFICES ASSUME Inv, Once, [Next]_vars PROVE Inv' /\ Once'
    OBVIOUS
  <2>1. Inv'
    <3>1. Inv => TypeOK  BY DEF Inv
    <3> QED  BY <3>1, NextType, NextInv
  <2>2. graph' = graph
    BY DEF Next, Load, Start, SkipImport, ImportNothing, ImportModel, Overflow,
           ImportThrows, NamingThrows, Return, Generate, vars
  <2>3. Acyclic(graph)' <=> Acyclic(graph)
    BY <2>2
  <2>4. CASE Acyclic(graph)
    <3>1. OnceInv'  BY <2>4, NextOnce
    <3> QED  BY <2>1, <3>1
  <2>5. CASE ~Acyclic(graph)
    BY <2>1, <2>3, <2>5
  <2> QED  BY <2>4, <2>5
<1>3. Inv /\ Once => LoadedOnce
  <2> SUFFICES ASSUME Inv, OnceInv  PROVE ~\E f \in Fidl \cup Fdepl : loads[f] > 1
    BY DEF LoadedOnce
  <2>1. \A f \in Fidl \cup Fdepl : loads[f] \in Nat
    BY DEF Inv, TypeOK, Files
  <2> QED  BY <2>1 DEF OnceInv
<1> QED  BY <1>1, <1>2, <1>3, PTL DEF Spec

-----------------------------------------------------------------------------
(* Where nothing with a specification is on a cycle, the nested calls are    *)
(* bounded: how many there are for one file, call by call.                   *)

known == deploymentModels \cup fidlModels

LEMMA CallsFinite ==
  ASSUME NEW s \in Seq(Frames), NEW f
  PROVE  IsFiniteSet(CallsFor(s, f)) /\ Cardinality(CallsFor(s, f)) \in Nat
<1>1. Len(s) \in Int /\ CallsFor(s, f) \in SUBSET (1 .. Len(s))  BY DEF CallsFor
<1>2. IsFiniteSet(1 .. Len(s))  BY <1>1, FS_Interval
<1> HIDE DEF CallsFor
<1>3. IsFiniteSet(CallsFor(s, f))  BY <1>1, <1>2, FS_Subset
<1> QED  BY <1>3, FS_CardinalityType

LEMMA CallsAdvance ==
  ASSUME NEW s \in Seq(Frames), s # <<>>, NEW f
  PROVE  CallsFor(Advance(s), f) = CallsFor(s, f)
<1> DEFINE t == Advance(s)
<1>1. Len(t) = Len(s) /\ \A i \in 1 .. Len(s) : t[i].file = s[i].file  BY AdvanceStack
<1> HIDE DEF t
<1>2. CallsFor(t, f) = CallsFor(s, f)  BY <1>1 DEF CallsFor
<1> QED  BY <1>2 DEF t

(* A new call is one more for its file. *)
LEMMA CallsPush ==
  ASSUME NEW s \in Seq(Frames), s # <<>>, NEW f \in Readable, NEW h
  PROVE  Cardinality(CallsFor(Append(Advance(s), Frame(f)), h)) =
           IF h = f THEN Cardinality(CallsFor(s, h)) + 1 ELSE Cardinality(CallsFor(s, h))
<1> DEFINE a == Advance(s)
           t == Append(a, Frame(f))
<1>1. a \in Seq(Frames) /\ Len(a) = Len(s) /\ CallsFor(a, h) = CallsFor(s, h)
  BY AdvanceStack, CallsAdvance
<1> HIDE DEF a
<1>2. Len(t) = Len(s) + 1 /\ t[Len(s) + 1] = Frame(f) /\ Len(s) \in Nat
      /\ \A i \in 1 .. Len(s) : t[i] = a[i]
  BY <1>1, PushStack
<1> HIDE DEF t
<1>3. t[Len(s) + 1].file = f  BY <1>2 DEF Frame
<1>4. \A i \in 1 .. Len(t) : i \in 1 .. Len(s) \/ i = Len(s) + 1  BY <1>2
<1>5. 1 .. Len(s) \subseteq 1 .. Len(t) /\ Len(s) + 1 \in 1 .. Len(t)  BY <1>2
<1>6. CallsFor(t, h) = IF h = f THEN CallsFor(a, h) \cup {Len(s) + 1} ELSE CallsFor(a, h)
  BY <1>1, <1>2, <1>3, <1>4, <1>5 DEF CallsFor
<1>7. Len(s) + 1 \notin CallsFor(a, h)  BY <1>1, <1>2 DEF CallsFor
<1>8. IsFiniteSet(CallsFor(a, h))  BY <1>1, CallsFinite
<1> HIDE DEF CallsFor
<1>9. Cardinality(CallsFor(a, h) \cup {Len(s) + 1}) = Cardinality(CallsFor(a, h)) + 1
  BY <1>7, <1>8, FS_AddElement
<1> QED  BY <1>1, <1>6, <1>9 DEF t, a

(* A return leaves no more calls for any file than there were. *)
LEMMA CallsPop ==
  ASSUME NEW s \in Seq(Frames), s # <<>>, NEW f
  PROVE  /\ CallsFor(Pop(s), f) \subseteq CallsFor(s, f)
         /\ Cardinality(CallsFor(Pop(s), f)) <= Cardinality(CallsFor(s, f))
<1> DEFINE t == Pop(s)
<1>1. Len(s) \in Nat \ {0} /\ Len(t) = Len(s) - 1
      /\ \A i \in 1 .. Len(s) - 1 : t[i] = s[i]
  BY PopStack, TopFrame
<1> HIDE DEF t
<1>2. \A i \in 1 .. Len(t) : i \in 1 .. Len(s) /\ t[i] = s[i]  BY <1>1
<1>3. CallsFor(t, f) \subseteq CallsFor(s, f)  BY <1>2 DEF CallsFor
<1>4. IsFiniteSet(CallsFor(s, f))  BY CallsFinite
<1> HIDE DEF CallsFor
<1>5. Cardinality(CallsFor(t, f)) <= Cardinality(CallsFor(s, f))  BY <1>3, <1>4, FS_Subset
<1> QED  BY <1>3, <1>5 DEF t

LEMMA ReadableFinite == IsFiniteSet(Readable) /\ Cardinality(Readable) \in Nat
<1>1. Readable \in SUBSET Files  BY DEF Readable, Files
<1>2. IsFiniteSet(Readable)  BY <1>1, FS_Subset
<1> QED  BY <1>2, FS_CardinalityType

(* What is below a file is needed by it. *)
LEMMA BelowNeeded ==
  ASSUME NEW g \in [Files -> Seq(Files)], NEW f \in Files
  PROVE  Below(g, f) \subseteq Needed(g, f)
<1> SUFFICES ASSUME NEW x \in Below(g, f)  PROVE x \in Needed(g, f)
  OBVIOUS
<1>1. PICK h \in Imported(g, f) : x \in Needed(g, h)  BY DEF Below
<1>2. h \in Files  BY ImportedFiles
<1>3. h \in Needed(g, f)  BY <1>1, NeededRoot, NeededClosed
<1>4. Closed(g, Needed(g, f))  BY NeededClosed DEF Closed
<1>5. Needed(g, f) \in SUBSET Files  BY DEF Needed
<1>6. Needed(g, h) \subseteq Needed(g, f)  BY <1>2, <1>3, <1>4, <1>5, NeededLeast
<1> QED  BY <1>1, <1>6

(* A file with calls enough for every known one that it needs is known. *)
LEMMA PaidIsFew ==
  ASSUME NEW g, NEW f \in Readable, NEW K \in SUBSET Readable, f \notin K
  PROVE  /\ Cardinality(K \cap Needed(g, f)) \in Nat
         /\ Cardinality(K \cap Needed(g, f)) + 1 <= Cardinality(Readable)
<1> DEFINE P == K \cap Needed(g, f)
<1>1. P \in SUBSET (Readable \ {f})  OBVIOUS
<1>2. IsFiniteSet(Readable \ {f}) /\ Cardinality(Readable \ {f}) = Cardinality(Readable) - 1
  BY ReadableFinite, FS_RemoveElement
<1> HIDE DEF P
<1>3. IsFiniteSet(P) /\ Cardinality(P) <= Cardinality(Readable \ {f})
  BY <1>1, <1>2, FS_Subset
<1>4. Cardinality(P) \in Nat  BY <1>3, FS_CardinalityType
<1> QED  BY <1>2, <1>3, <1>4, ReadableFinite DEF P

(* A file that a turn of the loop puts in the list without a call is known or *)
(* cannot be read.                                                           *)
LEMMA AdvancePaid ==
  ASSUME NEW g, NEW s \in Seq(Frames), s # <<>>, NEW L, NEW K,
         FewCalls(s), Paid(g, s, L, K), ListedAbove(s, L, K),
         NEW M, L \subseteq M, \A f \in M \ L : f \in K \/ f \notin Readable
  PROVE  FewCalls(Advance(s)) /\ Paid(g, Advance(s), M, K) /\ ListedAbove(Advance(s), M, K)
<1> DEFINE t == Advance(s)
<1>1. Len(t) = Len(s) /\ \A i \in 1 .. Len(s) : t[i].file = s[i].file /\ s[i].file \in Readable
  BY AdvanceStack, TopFrame
<1>2. \A f : CallsFor(t, f) = CallsFor(s, f)  BY CallsAdvance
<1>3. \A f \in Readable \ K : f \in M <=> f \in L  OBVIOUS
<1> HIDE DEF t
<1>4. FewCalls(t)  BY <1>2 DEF FewCalls
<1>5. Paid(g, t, M, K)  BY <1>2, <1>3 DEF Paid
<1>6. ListedAbove(t, M, K)  BY <1>1, <1>3 DEF ListedAbove
<1> QED  BY <1>4, <1>5, <1>6 DEF t

(* A nested call: it is for a file that is not in the list.                   *)
LEMMA PushPaid ==
  ASSUME NEW g \in [Files -> Seq(Files)], NEW s \in Seq(Frames), HasNext(g, s), Nested(g, s),
         NEW L, NEW K \in SUBSET Readable,
         FewCalls(s), Paid(g, s, L, K), ListedAbove(s, L, K), ~SpecificationCycle, g = graph,
         NEW f, f = ImportAt(g, s), f \in Readable \ (K \cup L)
  PROVE  /\ FewCalls(Append(Advance(s), Frame(f)))
         /\ Paid(g, Append(Advance(s), Frame(f)), L \cup {f}, K)
         /\ ListedAbove(Append(Advance(s), Frame(f)), L \cup {f}, K)
<1> DEFINE t == Append(Advance(s), Frame(f))
<1>1. s # <<>> /\ f \in Files  BY DEF HasNext, Readable, Files
<1>2. Len(Advance(s)) = Len(s) /\ Advance(s) \in Seq(Frames) /\ Len(s) \in Nat \ {0}
      /\ \A i \in 1 .. Len(s) : Advance(s)[i].file = s[i].file
  BY <1>1, AdvanceStack, TopFrame
<1>3. /\ Len(t) = Len(s) + 1 /\ t[Len(s) + 1].file = f
      /\ \A i \in 1 .. Len(s) : t[i].file = s[i].file
  BY <1>2, PushStack DEF Frame
<1>4. \A h : Cardinality(CallsFor(t, h)) =
               IF h = f THEN Cardinality(CallsFor(s, h)) + 1 ELSE Cardinality(CallsFor(s, h))
  BY <1>1, CallsPush
<1>5. Cardinality(CallsFor(s, f)) \in Nat  BY CallsFinite
<1>6. /\ Cardinality(K \cap Needed(g, f)) \in Nat /\ Cardinality(Readable) \in Nat
      /\ Cardinality(K \cap Needed(g, f)) + 1 <= Cardinality(Readable)
  BY PaidIsFew, ReadableFinite
<1>7. Needed(g, f) \cap SpecFiles # {} => CallsFor(s, f) = {}
  <2> SUFFICES ASSUME Needed(g, f) \cap SpecFiles # {}, NEW i \in CallsFor(s, f)  PROVE FALSE
    OBVIOUS
  <2>1. i \in 1 .. Len(s) /\ s[i].file = f  BY DEF CallsFor
  <2>2. f \in Below(g, f)  BY <2>1, ImportBelow
  <2> QED  BY <1>1, <2>2 DEF Below, SpecificationCycle
<1>8. Needed(g, f) \cap SpecFiles = {} =>
        Cardinality(CallsFor(s, f)) <= Cardinality(K \cap Needed(g, f))
  BY DEF Paid
<1>9. Cardinality(CallsFor(t, f)) <= Cardinality(Readable)
  <2>1. CASE Needed(g, f) \cap SpecFiles = {}  BY <2>1, <1>4, <1>5, <1>6, <1>8
  <2>2. CASE Needed(g, f) \cap SpecFiles # {}
    <3>1. Cardinality(CallsFor(s, f)) = 0  BY <2>2, <1>7, FS_EmptySet
    <3> QED  BY <3>1, <1>4, <1>6
  <2> QED  BY <2>1, <2>2
<1> HIDE DEF t
<1>10. FewCalls(t)  BY <1>4, <1>9 DEF FewCalls
<1>11. Paid(g, t, L \cup {f}, K)
  <2> SUFFICES ASSUME NEW h \in Readable \ K, Needed(g, h) \cap SpecFiles = {}
               PROVE  LET paid == Cardinality(K \cap Needed(g, h))
                      IN  Cardinality(CallsFor(t, h)) <= IF h \in L \cup {f} THEN paid + 1 ELSE paid
    BY DEF Paid
  <2>1. CASE h = f  BY <2>1, <1>4, <1>5, <1>6, <1>8
  <2>2. CASE h # f  BY <2>2, <1>4 DEF Paid
  <2> QED  BY <2>1, <2>2
<1>12. ListedAbove(t, L \cup {f}, K)
  <2> SUFFICES ASSUME NEW i \in 1 .. Len(t), NEW j \in 1 .. Len(t),
                      i < j, t[j].file \in K, t[i].file \in (L \cup {f}) \ K
               PROVE  \E k \in 1 .. Len(t) : j < k /\ t[k].file = t[i].file
    BY DEF ListedAbove
  <2>1. i \in 1 .. Len(s) /\ j \in 1 .. Len(s)
    <3>1. j # Len(s) + 1  BY <1>3
    <3> QED  BY <3>1, <1>2, <1>3
  <2>2. CASE t[i].file = f
    <3>1. Len(s) + 1 \in 1 .. Len(t) /\ j < Len(s) + 1  BY <2>1, <1>2, <1>3
    <3> QED  BY <3>1, <2>2, <1>3
  <2>3. CASE t[i].file # f
    <3>1. PICK k \in 1 .. Len(s) : j < k /\ s[k].file = s[i].file
      BY <2>1, <2>3, <1>3 DEF ListedAbove
    <3>2. k \in 1 .. Len(t)  BY <3>1, <1>2, <1>3
    <3> QED  BY <3>1, <3>2, <2>1, <1>3
  <2> QED  BY <2>2, <2>3
<1> QED  BY <1>10, <1>11, <1>12 DEF t

(* A return clears the list; every other call that may be repeated because   *)
(* of that gets its model, which was not known before, in return.            *)
LEMMA PopPaid ==
  ASSUME NEW g \in [Files -> Seq(Files)], NEW s \in Seq(Frames), s # <<>>, Nested(g, s),
         NEW L, NEW K \in SUBSET Readable,
         FewCalls(s), Paid(g, s, L, K), ListedAbove(s, L, K)
  PROVE  LET M == K \cup ({Top(s).file} \ SpecFiles)
         IN  FewCalls(Pop(s)) /\ Paid(g, Pop(s), {}, M) /\ ListedAbove(Pop(s), {}, M)
<1> DEFINE t == Pop(s)
           h == Top(s).file
           M == K \cup ({h} \ SpecFiles)
<1>1. /\ Len(s) \in Nat \ {0} /\ h = s[Len(s)].file /\ h \in Readable
      /\ \A i \in 1 .. Len(s) : s[i].file \in Readable
  BY TopFrame
<1>2. \A f : CallsFor(t, f) \subseteq CallsFor(s, f)
             /\ Cardinality(CallsFor(t, f)) <= Cardinality(CallsFor(s, f))
  BY CallsPop
<1>3. Len(t) = Len(s) - 1 /\ \A i \in 1 .. Len(s) - 1 : t[i] = s[i]  BY PopStack
<1>4. \A f : Cardinality(CallsFor(s, f)) \in Nat /\ Cardinality(CallsFor(t, f)) \in Nat
  BY CallsFinite, PopStack
<1> HIDE DEF t, h
<1>5. FewCalls(t)  BY <1>2, <1>4, ReadableFinite DEF FewCalls
<1>6. ListedAbove(t, {}, M)  BY DEF ListedAbove
<1>7. ASSUME NEW f \in Readable \ M, Needed(g, f) \cap SpecFiles = {}
      PROVE  Cardinality(CallsFor(t, f)) <= Cardinality(M \cap Needed(g, f))
  <2> DEFINE before == K \cap Needed(g, f)
             after == M \cap Needed(g, f)
  <2>0. f \in Readable \ K /\ f \in Files  BY DEF Readable, Files
  <2>1. M \in SUBSET Readable  BY <1>1
  <2>2. Cardinality(before) \in Nat  BY <2>0, PaidIsFew
  <2>3. Cardinality(after) \in Nat  BY <2>1, PaidIsFew
  <2>4. IsFiniteSet(before) /\ IsFiniteSet(after) /\ before \in SUBSET after
    <3>1. before \in SUBSET Readable /\ after \in SUBSET Readable  BY <2>1
    <3> QED  BY <3>1, ReadableFinite, FS_Subset
  <2>5. Cardinality(before) <= Cardinality(after)
    <3> HIDE DEF before, after
    <3> QED  BY <2>4, FS_Subset
  <2>6. CASE CallsFor(t, f) = {}
    <3>1. Cardinality(CallsFor(t, f)) = 0  BY <2>6, FS_EmptySet
    <3> QED  BY <3>1, <2>3
  <2>7. CASE f \notin L
    <3>1. Cardinality(CallsFor(s, f)) <= Cardinality(before)  BY <2>0, <1>7, <2>7 DEF Paid
    <3> HIDE DEF before, after
    <3>2. Cardinality(CallsFor(t, f)) <= Cardinality(after)  BY <3>1, <1>2, <1>4, <2>2, <2>3, <2>5
    <3> QED  BY <3>2 DEF after
  <2>8. CASE f \in L /\ CallsFor(t, f) # {}
    <3>1. PICK i \in 1 .. Len(t) : t[i].file = f  BY <2>8 DEF CallsFor
    <3>2. i \in 1 .. Len(s) /\ i < Len(s) /\ s[i].file = f /\ Len(s) \in 1 .. Len(s)
      BY <3>1, <1>1, <1>3
    <3>3. h \in Below(g, f)  BY <3>2, <1>1 DEF Nested
    <3>4. h \in Needed(g, f)  BY <3>3, <2>0, BelowNeeded
    <3>5. h \in M  BY <3>4, <1>7
    <3>6. h \notin K
      <4> SUFFICES ASSUME h \in K  PROVE FALSE
        OBVIOUS
      <4>1. PICK k \in 1 .. Len(s) : Len(s) < k
        BY <3>2, <2>0, <2>8, <1>1 DEF ListedAbove
      <4> QED  BY <4>1, <1>1
    <3>7. before # after  BY <3>4, <3>5, <3>6
    <3>8. Cardinality(CallsFor(s, f)) <= Cardinality(before) + 1  BY <2>0, <1>7, <2>8 DEF Paid
    <3> HIDE DEF before, after
    <3>9. Cardinality(before) # Cardinality(after)  BY <3>7, <2>4, FS_Subset
    <3>10. Cardinality(CallsFor(t, f)) <= Cardinality(after)
      BY <3>8, <3>9, <1>2, <1>4, <2>2, <2>3, <2>5
    <3> QED  BY <3>10 DEF after
  <2> QED  BY <2>6, <2>7, <2>8
<1> HIDE DEF M
<1>8. Paid(g, t, {}, M)  BY <1>7 DEF Paid
<1> QED  BY <1>5, <1>6, <1>8 DEF t, h, M

(* No file is loaded by more calls than there are files, so ...               *)
LEMMA DepthOfFew ==
  ASSUME NEW s \in Seq(Frames), FewCalls(s)
  PROVE  Len(s) <= Cardinality(Readable) * Cardinality(Readable)
<1> DEFINE N == Cardinality(Readable)
           upTo(i) == {j \in CallsFor(s, s[i].file) : j <= i}
           f == [i \in 1 .. Len(s) |-> <<s[i].file, Cardinality(upTo(i))>>]
           T == Readable \X (1 .. N)
<1>1. Len(s) \in Nat /\ \A i \in 1 .. Len(s) : s[i].file \in Readable
  <2>1. \A i \in 1 .. Len(s) : s[i] \in Frames  OBVIOUS
  <2> QED  BY <2>1 DEF Frames
<1>2. N \in Nat /\ IsFiniteSet(Readable)  BY ReadableFinite
<1>3. IsFiniteSet(1 .. N) /\ Cardinality(1 .. N) = N
  <2>1. 1 \in Int /\ N \in Int  BY <1>2
  <2> HIDE DEF N
  <2>2. Cardinality(1 .. N) = IF 1 > N THEN 0 ELSE N - 1 + 1  BY <2>1, FS_Interval
  <2> QED  BY <1>2, <2>1, <2>2, FS_Interval
<1>4. IsFiniteSet(T) /\ Cardinality(T) = N * N  BY <1>2, <1>3, FS_Product
<1>5. IsFiniteSet(1 .. Len(s)) /\ Cardinality(1 .. Len(s)) = Len(s)
  <2> DEFINE n == Len(s)
  <2>1. 1 \in Int /\ n \in Int /\ n \in Nat  BY <1>1
  <2> HIDE DEF n
  <2>2. Cardinality(1 .. n) = IF 1 > n THEN 0 ELSE n - 1 + 1  BY <2>1, FS_Interval
  <2>3. IsFiniteSet(1 .. n) /\ Cardinality(1 .. n) = n  BY <2>1, <2>2, FS_Interval
  <2> QED  BY <2>3 DEF n
<1>6. ASSUME NEW i \in 1 .. Len(s)
      PROVE  /\ IsFiniteSet(upTo(i)) /\ i \in upTo(i) /\ Cardinality(upTo(i)) \in 1 .. N
  <2> DEFINE c == CallsFor(s, s[i].file)
             u == upTo(i)
  <2>1. u \in SUBSET c /\ i \in u  BY <1>1 DEF CallsFor
  <2>2. IsFiniteSet(c) /\ Cardinality(c) \in Nat  BY CallsFinite
  <2>3. Cardinality(c) <= N  BY <1>1 DEF FewCalls
  <2> HIDE DEF c, u, N
  <2>4. IsFiniteSet(u) /\ Cardinality(u) <= Cardinality(c)  BY <2>1, <2>2, FS_Subset
  <2>5. Cardinality(u) \in Nat  BY <2>4, FS_CardinalityType
  <2>6. Cardinality(u) # 0  BY <2>1, <2>4, FS_EmptySet
  <2>7. Cardinality(u) \in 1 .. N  BY <1>2, <2>2, <2>3, <2>4, <2>5, <2>6
  <2> QED  BY <2>1, <2>4, <2>7 DEF u
<1>7. ASSUME NEW i \in 1 .. Len(s), NEW j \in 1 .. Len(s), i < j, f[i] = f[j]  PROVE FALSE
  <2> DEFINE u == upTo(i)
             v == upTo(j)
  <2>1. s[i].file = s[j].file /\ Cardinality(u) = Cardinality(v)  BY <1>7
  <2>2. u \subseteq v  BY <1>1, <1>7, <2>1 DEF CallsFor
  <2>3. j \in v /\ j \notin u
    <3>1. \A k \in u : k <= i  OBVIOUS
    <3>2. j \in v  BY <1>6
    <3>3. i \in Nat /\ j \in Nat  BY <1>1
    <3>4. ~(j <= i)  BY <3>3, <1>7
    <3> HIDE DEF u, v
    <3> QED  BY <3>1, <3>2, <3>4
  <2>4. IsFiniteSet(v)  BY <1>6
  <2> HIDE DEF u, v, f
  <2>5. u = v  BY <2>1, <2>2, <2>4, FS_Subset
  <2> QED  BY <2>3, <2>5
<1> DEFINE S == 1 .. Len(s)
<1>8. f \in [S -> T]  BY <1>1, <1>6
<1> HIDE DEF f, T, N, S
<1> SUFFICES ASSUME ~(Len(s) <= N * N)  PROVE FALSE
  BY DEF N
<1>9. N * N \in Nat  BY <1>2
<1>10. IsFiniteSet(S) /\ Cardinality(T) < Cardinality(S)  BY <1>1, <1>4, <1>5, <1>9 DEF S
<1>11. \E x, y \in S : x # y /\ f[x] = f[y]
  BY <1>4, <1>8, <1>10, FS_PigeonHole
<1>12. PICK x \in S : \E y \in S : x # y /\ f[x] = f[y]  BY <1>11
<1>13. PICK y \in S : x # y /\ f[x] = f[y]  BY <1>12
<1>14. x < y \/ y < x  BY <1>1, <1>13 DEF S
<1> QED  BY <1>7, <1>13, <1>14 DEF S

LEMMA NextDepth ==
  ASSUME TypeOK, graph \in ImportGraphs, DepthInv, [Next]_vars
  PROVE  DepthInv'
<1> USE DEF maps
<1> DEFINE L == importsLoadedList
           Few(s, list, k) == FewCalls(s) /\ Paid(graph, s, list, k) /\ ListedAbove(s, list, k)
<1>a. graph \in [Files -> Seq(Files)] /\ stack \in Seq(Frames) /\ Nested(graph, stack)
      /\ known \in SUBSET Readable
  BY DEF TypeOK, DepthInv, known, Readable
<1>b. graph' = graph
  BY DEF Next, Load, Start, SkipImport, ImportNothing, ImportModel, Overflow,
         ImportThrows, NamingThrows, Return, Generate, vars
<1>c. SpecificationCycle' <=> SpecificationCycle  BY <1>b DEF SpecificationCycle
<1>d. Nested(graph, <<>>)  BY DEF Nested
<1>e. phase \in {"loading", "crashed"} /\ ~SpecificationCycle => Few(stack, L, known)
  BY DEF DepthInv, known
<1> SUFFICES
      /\ Nested(graph, stack')
      /\ phase' = "crashed" => Len(stack') = MaxDepth
      /\ phase' \in {"loading", "crashed"} /\ ~SpecificationCycle => Few(stack', L', known')
  BY <1>b, <1>c DEF DepthInv, known, FewCalls, Paid, ListedAbove, CallsFor, Nested
<1>1. ASSUME NEW r \in Files, Start(r)
      PROVE  /\ Nested(graph, stack') /\ phase' # "crashed"
             /\ phase' = "loading" => Few(stack', L', known')
  <2>1. CASE phase' # "loading"
    <3>1. phase' # "crashed" /\ (stack' = stack \/ stack' = <<>>)
      BY <1>1, <2>1 DEF Start, Throw
    <3> QED  BY <2>1, <3>1, <1>a, <1>d
  <2>2. CASE phase' = "loading"
    <3>0. r \in Readable /\ stack' = <<Frame(r)>> /\ L' = L \cup {r} /\ known' = known
      BY <1>1, <2>2 DEF Start, Throw, known
    <3> DEFINE t == <<Frame(r)>>
    <3>1. Len(t) = 1 /\ t[1].file = r  BY DEF Frame
    <3>2. t \in Seq(Frames)
      <4>1. Frame(r) \in Frames  BY <3>0 DEF Frame, Frames
      <4> QED  BY <4>1
    <3> HIDE DEF t
    <3>3. Nested(graph, t) /\ ListedAbove(t, L', known')  BY <3>1 DEF Nested, ListedAbove
    <3>4. \A f : CallsFor(t, f) = IF f = r THEN {1} ELSE {}  BY <3>1 DEF CallsFor
    <3>5. \A f : Cardinality(CallsFor(t, f)) = IF f = r THEN 1 ELSE 0
      BY <3>4, FS_EmptySet, FS_Singleton
    <3>6. \A f \in Readable \ known : Cardinality(known \cap Needed(graph, f)) \in Nat
      BY <1>a, PaidIsFew
    <3>7. 1 <= Cardinality(Readable)
      <4>1. Cardinality(Readable) # 0  BY <3>0, ReadableFinite, FS_EmptySet
      <4> QED  BY <4>1, ReadableFinite
    <3>8. FewCalls(t)  BY <3>5, <3>7, ReadableFinite DEF FewCalls
    <3>9. Paid(graph, t, L', known')  BY <3>0, <3>5, <3>6 DEF Paid
    <3> QED  BY <2>2, <3>0, <3>3, <3>8, <3>9 DEF t
  <2> QED  BY <2>1, <2>2
<1>2. ASSUME SkipImport \/ ImportNothing
      PROVE  /\ Nested(graph, stack') /\ phase' # "crashed"
             /\ ~SpecificationCycle => Few(stack', L', known')
  <2>1. stack # <<>> /\ stack' = Advance(stack) /\ phase = "loading" /\ phase' = phase
        /\ known' = known /\ L \subseteq L'
    BY <1>2 DEF SkipImport, ImportNothing, HasImport, HasNext, known
  <2>2. \A f \in L' \ L : f \in known \/ f \notin Readable
    <3>1. L' = L \/ (L' = L \cup {NextImport} /\ (Known(NextImport) \/ NextImport \in Missing))
      BY <1>2 DEF SkipImport, ImportNothing
    <3>2. \A f \in Missing : f \notin Readable  BY ImportGraphAssumption DEF Readable
    <3> QED  BY <3>1, <3>2 DEF Known, known
  <2>3. Nested(graph, stack')  BY <2>1, <1>a, AdvanceNested
  <2>4. ASSUME ~SpecificationCycle  PROVE Few(stack', L', known')
    <3>1. Few(stack, L, known)  BY <1>e, <2>1, <2>4
    <3> QED  BY <3>1, <1>a, <2>1, <2>2, AdvancePaid
  <2> QED  BY <2>1, <2>3, <2>4
<1>3. ASSUME ImportModel
      PROVE  /\ Nested(graph, stack') /\ phase' # "crashed"
             /\ ~SpecificationCycle => Few(stack', L', known')
  <2> DEFINE f == NextImport
  <2>1. HasNext(graph, stack) /\ f \in Readable \ (known \cup L) /\ phase = "loading"
        /\ phase' = phase /\ known' = known /\ L' = L \cup {f}
        /\ stack' = Append(Advance(stack), Frame(f)) /\ f = ImportAt(graph, stack)
    BY <1>3 DEF ImportModel, HasImport, NextImport, Known, known
  <2> HIDE DEF f
  <2>2. Nested(graph, stack')  BY <2>1, <1>a, PushNested
  <2>3. ASSUME ~SpecificationCycle  PROVE Few(stack', L', known')
    <3>1. Few(stack, L, known)  BY <1>e, <2>1, <2>3
    <3> QED  BY <3>1, <1>a, <2>1, <2>3, PushPaid
  <2> QED  BY <2>1, <2>2, <2>3
<1>4. CASE Return
  <2> DEFINE h == Top(stack).file
  <2>1. stack # <<>> /\ stack' = Pop(stack) /\ phase = "loading" /\ L' = {}
        /\ phase' \in {"loading", "loaded"}
    BY <1>4 DEF Return
  <2>2. Nested(graph, stack')  BY <2>1, <1>a, PopNested
  <2>3. ASSUME ~SpecificationCycle, phase' = "loading"  PROVE Few(stack', L', known')
    <3>1. Few(stack, L, known)  BY <1>e, <2>1, <2>3
    <3>2. RecordImport(h)  BY <1>4, <2>3 DEF Return
    <3>3. h \in Readable  BY <1>a, <2>1, TopFrame
    <3>4. known' = known \cup ({h} \ SpecFiles)
      BY <3>2, <3>3, ImportGraphAssumption DEF RecordImport, known, Readable
    <3> DEFINE M == known \cup ({h} \ SpecFiles)
    <3>5. FewCalls(Pop(stack)) /\ Paid(graph, Pop(stack), {}, M) /\ ListedAbove(Pop(stack), {}, M)
      BY <3>1, <1>a, <2>1, PopPaid
    <3> QED  BY <2>1, <3>4, <3>5
  <2> QED  BY <2>1, <2>2, <2>3
<1>5. CASE Overflow
  <2>1. stack' = stack /\ L' = L /\ known' = known /\ phase = "loading" /\ Len(stack) = MaxDepth
    BY <1>5 DEF Overflow, HasImport, known
  <2> QED  BY <2>1, <1>a, <1>e
<1>6. CASE ImportThrows \/ NamingThrows
  <2>1. stack' = <<>> /\ phase' = "idle"  BY <1>6 DEF ImportThrows, NamingThrows, Throw
  <2> QED  BY <2>1, <1>d
<1>7. CASE Generate
  BY <1>7, <1>a DEF Generate
<1>8. CASE UNCHANGED vars
  <2>1. stack' = stack /\ L' = L /\ known' = known /\ phase' = phase
    BY <1>8 DEF vars, known
  <2> QED  BY <2>1, <1>a, <1>e DEF DepthInv
<1> QED  BY <1>1, <1>2, <1>3, <1>4, <1>5, <1>6, <1>7, <1>8 DEF Next, Load

(* How deep the calls of loadModel() go, on every import graph with cycles   *)
(* or without, run after run, whatever an exception has left behind.         *)
THEOREM LoaderDepth == Spec => []DepthInv
<1>1. Init => TypeOK /\ graph \in ImportGraphs /\ DepthInv
  <2> SUFFICES ASSUME Init  PROVE DepthInv
    BY InitType DEF Init
  <2> QED  BY DEF Init, DepthInv, Nested
<1>2. TypeOK /\ graph \in ImportGraphs /\ DepthInv /\ [Next]_vars
        => (TypeOK /\ graph \in ImportGraphs /\ DepthInv)'
  <2>1. graph \in ImportGraphs /\ [Next]_vars => (graph \in ImportGraphs)'
    BY DEF Next, Load, Start, SkipImport, ImportNothing, ImportModel, Overflow,
           ImportThrows, NamingThrows, Return, Generate, vars
  <2> QED  BY <2>1, NextType, NextDepth
<1> QED  BY <1>1, <1>2, PTL DEF Spec

(* The recursion over the imports ends: with room for as many nested calls   *)
(* as the square of the number of files the stack overflows only if a file   *)
(* that needs itself needs a file with specifications.                       *)
THEOREM LoaderOverflow == Spec => []OverflowNeedsSpecification
<1>1. TypeOK /\ DepthInv => OverflowNeedsSpecification
  <2> SUFFICES ASSUME TypeOK, DepthInv, phase = "crashed", ~SpecificationCycle
               PROVE  MaxDepth <= Cardinality(Readable) * Cardinality(Readable)
    BY DEF OverflowNeedsSpecification
  <2>1. stack \in Seq(Frames) /\ FewCalls(stack) /\ Len(stack) = MaxDepth
    BY DEF TypeOK, DepthInv
  <2> QED  BY <2>1, DepthOfFew
<1> QED  BY <1>1, LoaderType, LoaderDepth, PTL

-----------------------------------------------------------------------------
(* Termination.  Each call is in the loop over its imports, and there is room *)
(* for all of them.                                                          *)
LoopInv ==
  /\ DoneIn(graph, stack, Files) /\ Len(stack) <= MaxDepth
  /\ phase \in {"idle", "loaded"} => stack = <<>>

LEMMA NextShrinks ==
  ASSUME TypeOK, graph \in ImportGraphs, LoopInv, [Next]_vars
  PROVE  /\ LoopInv'
         /\ phase = "loading" /\ phase' = "loading" =>
              UNCHANGED vars \/ Precedes(Left(graph, stack, MaxDepth)', Left(graph, stack, MaxDepth))
<1>a. graph \in [Files -> Seq(Files)] /\ stack \in Seq(Frames) /\ DoneIn(graph, stack, Files)
      /\ Len(stack) \in Nat /\ MaxDepth \in Nat /\ MaxDepth # 0 /\ Len(stack) <= MaxDepth
  BY DEF TypeOK, LoopInv
<1>b. graph' = graph
  BY DEF Next, Load, Start, SkipImport, ImportNothing, ImportModel, Overflow,
         ImportThrows, NamingThrows, Return, Generate, vars
<1>e. DoneIn(graph, <<>>, Files) /\ Len(<<>>) <= MaxDepth  BY <1>a DEF DoneIn
<1> SUFFICES
      /\ DoneIn(graph, stack', Files) /\ Len(stack') <= MaxDepth
      /\ phase' \in {"idle", "loaded"} => stack' = <<>>
      /\ phase = "loading" /\ phase' = "loading" =>
           UNCHANGED vars \/ Precedes(Left(graph, stack', MaxDepth), Left(graph, stack, MaxDepth))
  <2>1. Left(graph, stack, MaxDepth)' = Left(graph, stack', MaxDepth)  BY <1>b DEF Left
  <2> QED  BY <1>b, <2>1 DEF LoopInv, DoneIn, Done
<1>1. ASSUME NEW r \in Files, Start(r)
      PROVE  /\ DoneIn(graph, stack', Files) /\ Len(stack') <= MaxDepth /\ phase # "loading"
             /\ phase' \in {"idle", "loaded"} => stack' = <<>>
  <2>0. stack = <<>> /\ phase = "idle"  BY <1>1 DEF Start, LoopInv
  <2>1. CASE phase' # "loading"
    <3>1. stack' = <<>>  BY <1>1, <2>0, <2>1 DEF Start, Throw
    <3> QED  BY <2>0, <3>1, <1>e
  <2>2. CASE phase' = "loading"
    <3>1. r \in Readable /\ stack' = <<Frame(r)>>  BY <1>1, <2>2 DEF Start, Throw
    <3>2. <<>> \in Seq(Frames) /\ <<Frame(r)>> = Append(<<>>, Frame(r))  OBVIOUS
    <3>3. DoneIn(graph, Append(<<>>, Frame(r)), Files)  BY <1>a, <1>e, <3>1, <3>2, PushDone
    <3>4. Len(<<Frame(r)>>) = 1  OBVIOUS
    <3> QED  BY <1>a, <2>0, <2>2, <3>1, <3>2, <3>3, <3>4
  <2> QED  BY <2>1, <2>2
<1>2. ASSUME SkipImport \/ ImportNothing
      PROVE  /\ DoneIn(graph, stack', Files) /\ Len(stack') <= MaxDepth /\ phase' = "loading"
             /\ Precedes(Left(graph, stack', MaxDepth), Left(graph, stack, MaxDepth))
  <2>1. HasNext(graph, stack) /\ stack # <<>> /\ stack' = Advance(stack) /\ phase' = "loading"
    BY <1>2 DEF SkipImport, ImportNothing, HasImport, HasNext
  <2>2. ImportAt(graph, stack) \in Files /\ Len(Advance(stack)) = Len(stack)
    BY <1>a, <2>1, ImportAtFile, AdvanceStack
  <2>3. DoneIn(graph, Advance(stack), Files)  BY <1>a, <2>1, <2>2, AdvanceDone
  <2>4. Precedes(Left(graph, Advance(stack), MaxDepth), Left(graph, stack, MaxDepth))
    BY <1>a, <2>1, AdvanceLeft
  <2> QED  BY <1>a, <2>1, <2>2, <2>3, <2>4
<1>3. ASSUME ImportModel
      PROVE  /\ DoneIn(graph, stack', Files) /\ Len(stack') <= MaxDepth /\ phase' = "loading"
             /\ Precedes(Left(graph, stack', MaxDepth), Left(graph, stack, MaxDepth))
  <2> DEFINE f == NextImport
             t == Append(Advance(stack), Frame(f))
  <2>1. HasNext(graph, stack) /\ stack # <<>> /\ f \in Readable /\ phase' = "loading"
        /\ stack' = t /\ Len(stack) < MaxDepth /\ f = ImportAt(graph, stack)
    BY <1>3 DEF ImportModel, HasImport, HasNext, NextImport
  <2> HIDE DEF f
  <2>2. f \in Files /\ Advance(stack) \in Seq(Frames) /\ Len(Advance(stack)) = Len(stack)
    BY <1>a, <2>1, ImportAtFile, AdvanceStack
  <2>3. DoneIn(graph, Advance(stack), Files)  BY <1>a, <2>1, <2>2, AdvanceDone
  <2>4. DoneIn(graph, t, Files)  BY <1>a, <2>1, <2>2, <2>3, PushDone
  <2>5. Len(t) = Len(stack) + 1  BY <2>1, <2>2, PushStack
  <2>6. Precedes(Left(graph, t, MaxDepth), Left(graph, stack, MaxDepth))
    BY <1>a, <2>1, PushLeft
  <2> QED  BY <1>a, <2>1, <2>4, <2>5, <2>6
<1>4. ASSUME Return
      PROVE  /\ DoneIn(graph, stack', Files) /\ Len(stack') <= MaxDepth
             /\ phase' \in {"idle", "loaded"} => stack' = <<>>
             /\ Precedes(Left(graph, stack', MaxDepth), Left(graph, stack, MaxDepth))
  <2>1. stack # <<>> /\ stack' = Pop(stack) /\ phase = "loading"
        /\ (phase' \in {"idle", "loaded"} => Len(stack) = 1)
    BY <1>4 DEF Return
  <2>2. Len(Pop(stack)) = Len(stack) - 1 /\ Pop(stack) \in Seq(Frames)  BY <1>a, <2>1, PopStack
  <2>3. DoneIn(graph, Pop(stack), Files)  BY <1>a, <2>1, PopDone
  <2>4. Precedes(Left(graph, Pop(stack), MaxDepth), Left(graph, stack, MaxDepth))
    BY <1>a, <2>1, PopLeft
  <2>5. phase' \in {"idle", "loaded"} => Pop(stack) = <<>>  BY <2>1, <2>2
  <2> QED  BY <1>a, <2>1, <2>2, <2>3, <2>4, <2>5
<1>5. CASE ImportThrows \/ NamingThrows
  <2>1. stack' = <<>> /\ phase' = "idle"  BY <1>5 DEF ImportThrows, NamingThrows, Throw
  <2> QED  BY <2>1, <1>e
<1>6. CASE Overflow
  <2>1. stack' = stack /\ phase' = "crashed"  BY <1>6 DEF Overflow
  <2> QED  BY <2>1, <1>a
<1>7. CASE Generate
  <2>1. stack' = stack /\ stack = <<>> /\ phase' = "idle"  BY <1>7 DEF Generate, LoopInv
  <2> QED  BY <2>1, <1>a
<1>8. CASE UNCHANGED vars
  <2>1. stack' = stack /\ phase' = phase  BY <1>8 DEF vars
  <2> QED  BY <1>8, <2>1, <1>a DEF LoopInv
<1> QED  BY <1>1, <1>2, <1>3, <1>4, <1>5, <1>6, <1>7, <1>8 DEF Next, Load

(* A loadModel() that is called does not go round for ever, whatever the     *)
(* files import and whatever earlier calls have left behind: what it has     *)
(* left to do becomes less with every step, and NoEndlessDescent.            *)
THEOREM LoaderShrinks == Spec => LoadShrinks
<1> DEFINE I == TypeOK /\ graph \in ImportGraphs /\ LoopInv
           T == Left(graph, stack, MaxDepth) \in [1 .. MaxDepth -> Nat]
           A == phase = "loading" /\ phase' = "loading" =>
                  Precedes(Left(graph, stack, MaxDepth)', Left(graph, stack, MaxDepth))
<1>1. Init => I
  <2> SUFFICES ASSUME Init  PROVE LoopInv
    BY InitType DEF Init
  <2>1. Len(<<>>) <= MaxDepth  OBVIOUS
  <2> QED  BY <2>1 DEF Init, LoopInv, DoneIn
<1>2. I /\ [Next]_vars => I'
  <2>1. graph \in ImportGraphs /\ [Next]_vars => (graph \in ImportGraphs)'
    BY DEF Next, Load, Start, SkipImport, ImportNothing, ImportModel, Overflow,
           ImportThrows, NamingThrows, Return, Generate, vars
  <2> QED  BY <2>1, NextType, NextShrinks
<1>3. I => T
  <2> SUFFICES ASSUME I  PROVE T
    OBVIOUS
  <2>1. graph \in [Files -> Seq(Files)] /\ stack \in Seq(Frames) /\ DoneIn(graph, stack, Files)
        /\ MaxDepth \in Nat
    BY DEF TypeOK, LoopInv
  <2> QED  BY <2>1, LeftType
<1>4. I /\ [Next]_vars => [A]_vars  BY NextShrinks
<1> HIDE DEF I, T, A
<1>5. Spec => []T /\ [][A]_vars  BY <1>1, <1>2, <1>3, <1>4, PTL DEF Spec
<1> QED  BY <1>5 DEF T, A, LoadShrinks

-----------------------------------------------------------------------------
(* Abstractly, a file is asked for, and answered when its call returns. *)
asked == IF phase \in {"loading", "crashed"} /\ ~spoiled THEN root ELSE NoFile
models == IF phase = "loaded" /\ ~spoiled
            THEN (deploymentModels \cup fidlModels) \cap (Fidl \cup Fdepl) ELSE {}

(* What makes the loader throw is needed by the file it was asked for.       *)
LEMMA ThrownIsNeeded ==
  ASSUME Inv, ~spoiled, ImportThrows
  PROVE  Needed(graph, root) \cap Empty # {}
<1>1. TypeOK /\ CleanInv /\ HasNext(graph, stack) /\ phase = "loading" /\ StackInv
  BY CleanPart DEF Inv, ImportThrows, HasImport, LoaderInv
<1>2. /\ graph \in [Files -> Seq(Files)] /\ stack \in Seq(Frames) /\ stack # <<>>
      /\ root \in Files /\ SeenInv
  BY <1>1 DEF TypeOK, HasNext, StackInv, CleanInv
<1>3. Top(stack).file \in Needed(graph, root)
  <2>1. Top(stack).file \in OnStack  BY <1>2, TopFrame DEF OnStack
  <2> QED  BY <2>1, <1>2 DEF SeenInv
<1>4. NextImport \in Imported(graph, Top(stack).file)
  BY <1>1, <1>2, ImportAtFile DEF NextImport
<1>5. NextImport \in Needed(graph, root)  BY <1>2, <1>3, <1>4, NeededClosed
<1> QED  BY <1>5 DEF ImportThrows

LEMMA FragileIsNeeded ==
  ASSUME Inv, ~spoiled, NamingThrows
  PROVE  Needed(graph, root) \cap Fragile # {}
<1>1. TypeOK /\ CleanInv /\ phase = "loading" /\ stack # <<>> /\ Top(stack).file \in Fragile
  BY CleanPart DEF Inv, NamingThrows, LoaderInv
<1>2. stack \in Seq(Frames) /\ SeenInv  BY <1>1 DEF TypeOK, CleanInv
<1>3. Top(stack).file \in OnStack  BY <1>1, <1>2, TopFrame DEF OnStack
<1> QED  BY <1>1, <1>2, <1>3 DEF SeenInv

(* From an exception to the next generation from a clean state nothing is    *)
(* asked for and nothing is handed out.                                      *)
LEMMA SpoiledStutters ==
  ASSUME Inv, spoiled, [Next]_vars
  PROVE  UNCHANGED <<graph, asked, models>>
<1>1. graph' = graph /\ (spoiled' \/ phase' = "idle")
  BY DEF Next, Load, Start, SkipImport, ImportNothing, ImportModel, Overflow, ImportThrows,
         NamingThrows, Throw, Return, Generate, vars
<1>2. asked = NoFile /\ models = {} /\ asked' = NoFile /\ models' = {}
  BY <1>1 DEF asked, models
<1> QED  BY <1>1, <1>2

(* The loader implements the abstract one on every import graph, run after   *)
(* run: what it hands out is the import closure, or it gives up over a file  *)
(* that the closure cannot do with.  The runs after one that threw show the  *)
(* abstract loader nothing until its leftovers are gone (spoiled).           *)
THEOREM LoaderImplements == Spec => ImplementsClosure
<1> USE DEF maps
<1>a. Closure!Files = Files /\ Closure!Readable = Readable
  BY DEF Closure!Files, Files, Closure!Readable, Readable
<1>b. Closure!Needed(graph, root) = Needed(graph, root)
  BY <1>a DEF Closure!Needed, Needed, Closure!Closed, Closed, Closure!Imported, Imported
<1>1. Init => Closure!Init
  <2> SUFFICES ASSUME Init  PROVE Closure!Init
    OBVIOUS
  <2>1. graph \in [Files -> Seq(Files)] /\ phase = "idle"  BY DEF Init
  <2> QED  BY <1>a, <2>1 DEF Closure!Init
<1>2. Inv /\ LoadedIsNeeded' /\ [Next]_vars => [Closure!Next]_<<graph, asked, models>>
  <2> SUFFICES ASSUME Inv, ~spoiled, LoadedIsNeeded', [Next]_vars
               PROVE  Closure!Next \/ UNCHANGED <<graph, asked, models>>
    BY SpoiledStutters
  <2>a. TypeOK /\ StackInv /\ CleanInv /\ stack \in Seq(Frames)
    BY CleanPart DEF Inv, TypeOK, LoaderInv
  <2>1. ASSUME NEW r \in Files, Start(r)
        PROVE  Closure!Next \/ UNCHANGED <<graph, asked, models>>
    <3>1. phase = "idle" /\ graph' = graph /\ root' = r /\ asked = NoFile /\ models = {}
          /\ UNCHANGED maps /\ deploymentModels \cup fidlModels = {}
      BY <2>1, <2>a DEF Start, asked, models, CleanInv
    <3>2. phase' \in {"idle", "loaded", "loading"}  BY <2>1 DEF Start, Throw
    <3>3. CASE phase' \in {"idle", "loaded"}
      <4>1. asked' = NoFile /\ models' = {}  BY <3>1, <3>3 DEF asked, models
      <4> QED  BY <3>1, <4>1
    <3>4. CASE phase' = "loading"
      <4>1. r \in Readable /\ spoiled' = spoiled  BY <2>1, <3>4 DEF Start, Throw
      <4>2. asked' = r /\ models' = {}  BY <3>1, <3>4, <4>1 DEF asked, models
      <4>3. Closure!Ask(r)  BY <3>1, <4>2 DEF Closure!Ask, asked, models
      <4> QED  BY <1>a, <4>1, <4>3 DEF Closure!Next
    <3> QED  BY <3>2, <3>3, <3>4
  <2>2. ASSUME SkipImport \/ ImportNothing \/ ImportModel \/ Overflow
        PROVE  UNCHANGED <<graph, asked, models>>
    <3>1. phase = "loading" /\ phase' \in {"loading", "crashed"} /\ root' = root
          /\ graph' = graph /\ spoiled' = spoiled
      BY <2>2 DEF SkipImport, ImportNothing, ImportModel, Overflow, HasImport
    <3> QED  BY <3>1 DEF asked, models
  <2>3. CASE ImportThrows \/ NamingThrows
    <3>1. phase = "loading" /\ phase' = "idle" /\ graph' = graph /\ root \in Files
      BY <2>3, <2>a DEF ImportThrows, NamingThrows, HasImport, Throw, StackInv
    <3>2. asked = root /\ models = {} /\ asked' = NoFile /\ models' = {}
      BY <3>1 DEF asked, models
    <3>3. root # NoFile  BY <3>1, ImportGraphAssumption
    <3>4. Closure!GiveUp
      BY <1>b, <2>3, <3>1, <3>2, <3>3, ThrownIsNeeded, FragileIsNeeded
         DEF Closure!GiveUp, asked, models
    <3> QED  BY <3>4 DEF Closure!Next
  <2>4. CASE Return
    <3>1. phase = "loading" /\ graph' = graph /\ root' = root /\ spoiled' = spoiled
          /\ root \in Files
      BY <2>4, <2>a DEF Return, StackInv
    <3>2. asked = root /\ models = {}  BY <3>1 DEF asked, models
    <3>3. CASE Len(stack) = 1
      <4>1. phase' = "loaded"  BY <2>4, <3>3 DEF Return
      <4>2. deploymentModels' \cup fidlModels' =
              Needed(graph, root) \cap (Fidl \cup Fdepl \cup ({root} \cap SpecFiles))
        BY <3>1, <4>1 DEF LoadedIsNeeded
      <4>3. asked' = NoFile /\ models' = Needed(graph, root) \cap (Fidl \cup Fdepl)
        BY <3>1, <4>1, <4>2 DEF asked, models
      <4>4. Closure!Answer  BY <1>b, <3>1, <3>2, <4>3 DEF Closure!Answer, asked, models
      <4> QED  BY <4>4 DEF Closure!Next
    <3>4. CASE Len(stack) # 1
      <4>1. phase' = phase  BY <2>4, <3>4 DEF Return
      <4> QED  BY <3>1, <4>1 DEF asked, models
    <3> QED  BY <3>3, <3>4
  <2>5. CASE Generate
    <3>1. phase = "loaded" /\ phase' = "idle" /\ graph' = graph  BY <2>5 DEF Generate
    <3>2. asked = NoFile /\ asked' = NoFile /\ models' = {}  BY <3>1 DEF asked, models
    <3>3. Closure!Discard  BY <3>1, <3>2 DEF Closure!Discard
    <3> QED  BY <3>3 DEF Closure!Next
  <2>6. CASE UNCHANGED vars  BY <2>6 DEF vars, asked, models
  <2> QED  BY <2>1, <2>2, <2>3, <2>4, <2>5, <2>6 DEF Next, Load
<1>3. Init => Inv  BY InitType, InitInv DEF Inv, Init
<1>4. Inv /\ [Next]_vars => Inv'
  <2>1. Inv => TypeOK  BY DEF Inv
  <2> QED  BY <2>1, NextType, NextInv
<1> QED
  BY <1>1, <1>2, <1>3, <1>4, LoaderLoadsNeeded, PTL
  DEF Spec, ImplementsClosure, Closure!Spec, asked, models

-----------------------------------------------------------------------------
(* What loadModel() names changes nothing of how it loads: every step of      *)
(* ElementNames is one of the loader's.                                       *)
LEMMA NamesStep ==
  ASSUME [NamesNext]_<<vars, nameVars>>
  PROVE  [Next]_vars
<1>1. CASE \E r \in Files : Start(r) /\ NamesNothing  BY <1>1 DEF Next
<1>2. CASE LoadNames
  BY <1>2 DEF LoadNames, ReturnNamed, NamingThrowsNamed, Next, Load
<1>3. CASE Generate /\ NamesNothing  BY <1>3 DEF Next
<1>4. CASE UNCHANGED <<vars, nameVars>>  BY <1>4
<1> QED  BY <1>1, <1>2, <1>3, <1>4 DEF NamesNext

(* Hence the naming of arguments, exceptions included, takes nothing away from *)
(* what loadModel() loads: the import closure, no file twice without a cycle.  *)
THEOREM NamesLoads == NamesSpec => Spec
<1>1. NamesInit => Init  BY DEF NamesInit
<1>2. [NamesNext]_<<vars, nameVars>> => [Next]_vars  BY NamesStep
<1> QED  BY <1>1, <1>2, PTL DEF NamesSpec, Spec

(* The last call to return is that for the root, whose elements are named. *)
LEMMA RootIsNamed ==
  ASSUME Inv, Return, Len(stack) = 1
  PROVE  Names(Top(stack).file)
<1>1. stack \in Seq(Frames) /\ stack # <<>> /\ stack[1].file = root
  BY DEF Return, Inv, TypeOK, LoaderInv, StackInv
<1>2. root \in Readable
  <2>1. stack[1] \in Frames  BY <1>1
  <2> QED  BY <1>1, <2>1 DEF Frames
<1>3. Top(stack).file = root  BY <1>1 DEF Top
<1> QED  BY <1>2, <1>3 DEF Names, Readable

(* A call that returns clears the list, or was not to name and so the root,   *)
(* whose call is around it, will.                                             *)
LEMMA ReturnLeavesNothing ==
  ASSUME Inv, LeftoverInv, ReturnNamed
  PROVE  LeftoverInv'
<1>1. Return /\ spoiled' = spoiled  BY DEF ReturnNamed, Return
<1>2. listOfOutArguments' = IF Names(Top(stack).file) THEN <<>> ELSE listOfOutArguments
  BY DEF ReturnNamed
<1>3. CASE Names(Top(stack).file)
  BY <1>2, <1>3 DEF LeftoverInv, LeftByException, SameNameAccepted
<1>4. CASE ~Names(Top(stack).file)
  <2>1. Len(stack) # 1  BY <1>1, <1>4, RootIsNamed
  <2>2. phase' = "loading"  BY <1>1, <2>1 DEF Return
  <2> QED  BY <1>1, <1>2, <1>4, <2>2 DEF LeftoverInv, LeftByException, SameNameAccepted
<1> QED  BY <1>3, <1>4

LEMMA NextLeftover ==
  ASSUME Inv, LeftoverInv, [NamesNext]_<<vars, nameVars>>
  PROVE  LeftoverInv'
<1> USE DEF LeftoverInv, LeftByException, SameNameAccepted
<1>1. ASSUME NEW r \in Files, Start(r), NamesNothing  PROVE LeftoverInv'
  <2>1. importsLoadedList' # {}  BY <1>1 DEF Start
  <2>2. spoiled' \in {spoiled, TRUE}  BY <1>1 DEF Start, Throw
  <2> QED  BY <1>1, <2>1, <2>2 DEF NamesNothing
<1>2. CASE (SkipImport \/ ImportNothing \/ ImportModel \/ Overflow) /\ NamesNothing
  <2>1. spoiled' = spoiled /\ phase' \in {"loading", "crashed"}
    BY <1>2 DEF SkipImport, ImportNothing, ImportModel, Overflow, HasImport
  <2> QED  BY <1>2, <2>1 DEF NamesNothing
<1>3. CASE ImportThrows \/ NamingThrowsNamed
  BY <1>3 DEF ImportThrows, NamingThrowsNamed, NamingThrows, Throw
<1>4. CASE ReturnNamed  BY <1>4, ReturnLeavesNothing
<1>5. CASE Generate /\ NamesNothing
  <2>1. phase = "loaded" /\ phase' = "idle"
        /\ spoiled' = (spoiled /\ importsLoadedList # {})
    BY <1>5 DEF Generate
  <2> QED  BY <1>5, <2>1 DEF NamesNothing
<1>6. CASE UNCHANGED <<vars, nameVars>>  BY <1>6 DEF vars, maps, nameVars
<1> QED  BY <1>1, <1>2, <1>3, <1>4, <1>5, <1>6 DEF NamesNext, LoadNames

(* ValidateElements.validateFDModelElements(), whose lists are shared by all  *)
(* files of a command line: on every graph and for every content, only a call *)
(* that throws leaves something to the next, and no longer than to the next   *)
(* load that comes through.                                                   *)
THEOREM NamesLeftovers == NamesSpec => []LeftByException
<1>1. NamesSpec => []Inv
  <2>1. Init => Inv  BY InitType, InitInv DEF Inv, Init
  <2>2. Inv /\ [Next]_vars => Inv'
    <3>1. Inv => TypeOK  BY DEF Inv
    <3> QED  BY <3>1, NextType, NextInv
  <2> QED  BY <2>1, <2>2, NamesLoads, PTL DEF Spec
<1>2. NamesInit => LeftoverInv
  BY DEF NamesInit, Init, LeftoverInv, LeftByException, SameNameAccepted
<1>3. Inv /\ LeftoverInv /\ [NamesNext]_<<vars, nameVars>> => LeftoverInv'
  BY NextLeftover
<1>4. LeftoverInv => LeftByException  BY DEF LeftoverInv
<1> QED  BY <1>1, <1>2, <1>3, <1>4, PTL DEF NamesSpec

-----------------------------------------------------------------------------
(* Lists: what flattening and removing do to them. *)

(* Induction over the numbers for a set of them. *)
LEMMA NatInSet ==
  ASSUME NEW T, 0 \in T, \A n \in Nat : n \in T => n + 1 \in T
  PROVE  Nat \subseteq T
<1> SUFFICES ASSUME Nat \ T # {}  PROVE FALSE
  OBVIOUS
<1>1. PICK n \in Nat \ T : \A k \in Nat \ T : ~ (<<k, n>> \in OpToRel(<, Nat))
  <2>1. Nat \ T \subseteq Nat  OBVIOUS
  <2> QED  BY <2>1, WFMin, NatLessThanWellFounded
<1>2. n # 0 /\ n - 1 \in Nat /\ n - 1 < n /\ n - 1 + 1 = n
  <2>1. n \in Nat /\ n \notin T  OBVIOUS
  <2>2. n # 0  BY <2>1
  <2> QED  BY <2>1, <2>2
<1>3. <<n - 1, n>> \in OpToRel(<, Nat)  BY <1>1, <1>2 DEF OpToRel
<1>4. n - 1 \in T  BY <1>1, <1>2, <1>3
<1> QED  BY <1>1, <1>2, <1>4

(* The recursive function in FlattenSeq exists. *)
LEMMA FlattenExists ==
  ASSUME NEW seqs, NEW n \in Nat
  PROVE  \E g : g = [i \in 1 .. n |-> IF i = 1 THEN seqs[i] ELSE g[i - 1] \o seqs[i]]
<1> DEFINE P(k) == \E g : g = [i \in 1 .. k |-> IF i = 1 THEN seqs[i] ELSE g[i - 1] \o seqs[i]]
           T == {k \in Nat : P(k)}
<1>1. 0 \in T
  <2>1. [i \in 1 .. 0 |-> seqs[i]] =
          [i \in 1 .. 0 |-> IF i = 1 THEN seqs[i] ELSE [k \in 1 .. 0 |-> seqs[k]][i - 1] \o seqs[i]]
    OBVIOUS
  <2> QED  BY <2>1
<1>2. ASSUME NEW k \in Nat, k \in T  PROVE k + 1 \in T
  <2>1. PICK g : g = [i \in 1 .. k |-> IF i = 1 THEN seqs[i] ELSE g[i - 1] \o seqs[i]]
    BY <1>2
  <2> DEFINE h == [i \in 1 .. k + 1 |-> IF i = 1 THEN seqs[i] ELSE g[i - 1] \o seqs[i]]
  <2>2. ASSUME NEW i \in 1 .. k + 1, i # 1  PROVE h[i - 1] = g[i - 1]
    <3>1. i - 1 \in 1 .. k /\ i - 1 \in 1 .. k + 1  BY <2>2
    <3>2. g[i - 1] = IF i - 1 = 1 THEN seqs[i - 1] ELSE g[i - 1 - 1] \o seqs[i - 1]
      BY <2>1, <3>1
    <3> QED  BY <3>1, <3>2
  <2>3. h = [i \in 1 .. k + 1 |-> IF i = 1 THEN seqs[i] ELSE h[i - 1] \o seqs[i]]
    BY <2>2
  <2> HIDE DEF h
  <2>4. P(k + 1)  BY <2>3
  <2> HIDE DEF P
  <2> QED  BY <2>4
<1> HIDE DEF T
<1>3. n \in T  BY <1>1, <1>2, NatInSet
<1> QED  BY <1>3 DEF T

(* FlattenSeq() of sequences has whatever its first one has and appending the *)
(* next one keeps.                                                            *)
LEMMA FlattenKeeps ==
  ASSUME NEW S, NEW seqs \in Seq(S), seqs # <<>>, NEW G,
         seqs[1] \in G[1],
         \A i \in 2 .. Len(seqs) : \A s \in G[i - 1] : s \o seqs[i] \in G[i]
  PROVE  FlattenSeq(seqs) \in G[Len(seqs)]
<1> DEFINE n == Len(seqs)
           Is(g) == g = [i \in 1 .. n |-> IF i = 1 THEN seqs[i] ELSE g[i - 1] \o seqs[i]]
           flat == CHOOSE g : Is(g)
<1>1. n \in Nat \ {0}  OBVIOUS
<1>2. Is(flat)
  <2>1. \E g : Is(g)  BY <1>1, FlattenExists
  <2> QED  BY <2>1
<1>3. FlattenSeq(seqs) = flat[n]  BY <1>1 DEF FlattenSeq
<1> HIDE DEF flat, n
<1> DEFINE T == {i \in Nat : i + 1 \in 1 .. n => flat[i + 1] \in G[i + 1]}
<1>4. 0 \in T  BY <1>1, <1>2
<1>5. ASSUME NEW i \in Nat, i \in T  PROVE i + 1 \in T
  <2> SUFFICES ASSUME i + 2 \in 1 .. n  PROVE flat[i + 2] \in G[i + 2]
    BY <1>1
  <2>1. i + 1 \in 1 .. n /\ i + 2 \in 2 .. n /\ i + 2 # 1 /\ i + 2 - 1 = i + 1  BY <1>1
  <2>2. flat[i + 1] \in G[i + 1]  BY <1>5, <2>1
  <2>3. flat[i + 2] = flat[i + 1] \o seqs[i + 2]
    <3>1. \A j \in 1 .. n : flat[j] = IF j = 1 THEN seqs[j] ELSE flat[j - 1] \o seqs[j]
      BY <1>2
    <3> DEFINE m == i + 2
    <3>2. m \in 1 .. n /\ m # 1 /\ m - 1 = i + 1  BY <2>1
    <3> HIDE DEF m, Is
    <3>3. flat[m] = flat[m - 1] \o seqs[m]  BY <3>1, <3>2
    <3> QED  BY <3>2, <3>3 DEF m
  <2> QED  BY <2>1, <2>2, <2>3 DEF n
<1> HIDE DEF T
<1>6. n - 1 \in T  BY <1>1, <1>4, <1>5, NatInSet
<1>7. n - 1 + 1 = n /\ n \in 1 .. n  BY <1>1
<1> QED  BY <1>3, <1>6, <1>7 DEF T, n

(* s has the elements of X, each once. *)
Listing(s, X) ==
  /\ s \in Seq(X)
  /\ \A p, q \in 1 .. Len(s) : s[p] = s[q] => p = q
  /\ \A x \in X : \E p \in 1 .. Len(s) : s[p] = x

LEMMA ConcatPlaces ==
  ASSUME NEW T, NEW s \in Seq(T), NEW t \in Seq(T)
  PROVE  /\ s \o t \in Seq(T) /\ Len(s \o t) = Len(s) + Len(t)
         /\ \A p \in 1 .. Len(s) : p \in 1 .. Len(s \o t) /\ (s \o t)[p] = s[p]
         /\ \A p \in 1 .. Len(t) :
              Len(s) + p \in 1 .. Len(s \o t) /\ (s \o t)[Len(s) + p] = t[p]
         /\ \A p \in 1 .. Len(s \o t) :
              \/ p \in 1 .. Len(s)
              \/ p - Len(s) \in 1 .. Len(t) /\ p = Len(s) + (p - Len(s))
BY ConcatProperties

LEMMA ConcatListing ==
  ASSUME NEW X, NEW Y, X \cap Y = {}, NEW s, NEW t, Listing(s, X), Listing(t, Y)
  PROVE  Listing(s \o t, X \cup Y)
<1> DEFINE T == X \cup Y
           u == s \o t
<1>1. s \in Seq(X) /\ t \in Seq(Y)  BY DEF Listing
<1>2. s \in Seq(T) /\ t \in Seq(T)
  <2>1. \A p \in 1 .. Len(s) : s[p] \in T  BY <1>1
  <2>2. \A p \in 1 .. Len(t) : t[p] \in T  BY <1>1
  <2> QED  BY <1>1, <2>1, <2>2
<1>3. /\ \A p \in 1 .. Len(s) : u[p] \in X /\ u[p] = s[p] /\ p \in 1 .. Len(u)
      /\ \A p \in 1 .. Len(t) : /\ u[Len(s) + p] \in Y /\ u[Len(s) + p] = t[p]
                                /\ Len(s) + p \in 1 .. Len(u)
      /\ \A p \in 1 .. Len(u) : \/ p \in 1 .. Len(s)
                                \/ \E k \in 1 .. Len(t) : p = Len(s) + k
  <2>1. \A p \in 1 .. Len(s) : s[p] \in X  BY <1>1
  <2>2. \A p \in 1 .. Len(t) : t[p] \in Y  BY <1>1
  <2> HIDE DEF T, u
  <2>3. /\ \A p \in 1 .. Len(s) : p \in 1 .. Len(u) /\ u[p] = s[p]
        /\ \A p \in 1 .. Len(t) : Len(s) + p \in 1 .. Len(u) /\ u[Len(s) + p] = t[p]
        /\ \A p \in 1 .. Len(u) : \/ p \in 1 .. Len(s)
                                  \/ p - Len(s) \in 1 .. Len(t) /\ p = Len(s) + (p - Len(s))
    <3>1. s \in Seq(T) /\ t \in Seq(T)  BY <1>2
    <3> QED  BY <3>1, ConcatPlaces DEF u
  <2> QED  BY <2>1, <2>2, <2>3
<1>4. u \in Seq(T)  BY <1>2
<1> HIDE DEF u
<1>5. ASSUME NEW p \in 1 .. Len(u), NEW q \in 1 .. Len(u), u[p] = u[q]  PROVE p = q
  <2>1. CASE p \in 1 .. Len(s) /\ q \in 1 .. Len(s)
    BY <1>3, <1>5, <2>1 DEF Listing
  <2>2. CASE p \notin 1 .. Len(s) /\ q \notin 1 .. Len(s)
    <3>1. PICK j \in 1 .. Len(t) : p = Len(s) + j  BY <1>3, <2>2
    <3>2. PICK k \in 1 .. Len(t) : q = Len(s) + k  BY <1>3, <2>2
    <3>3. t[j] = t[k]  BY <1>3, <1>5, <3>1, <3>2
    <3>4. j = k  BY <3>3 DEF Listing
    <3> QED  BY <3>1, <3>2, <3>4
  <2>3. ASSUME NEW i \in 1 .. Len(s), NEW j \in 1 .. Len(u), j \notin 1 .. Len(s), u[i] = u[j]
        PROVE  FALSE
    <3>1. PICK k \in 1 .. Len(t) : j = Len(s) + k  BY <1>3, <2>3
    <3>2. u[i] \in X /\ u[j] \in Y  BY <1>3, <3>1
    <3> QED  BY <2>3, <3>2
  <2> QED  BY <1>5, <2>1, <2>2, <2>3
<1>6. ASSUME NEW x \in T  PROVE \E p \in 1 .. Len(u) : u[p] = x
  <2>1. CASE x \in X
    <3>1. PICK p \in 1 .. Len(s) : s[p] = x  BY <2>1 DEF Listing
    <3> QED  BY <1>3, <3>1
  <2>2. CASE x \in Y
    <3>1. PICK p \in 1 .. Len(t) : t[p] = x  BY <2>2 DEF Listing
    <3>2. u[Len(s) + p] = x /\ Len(s) + p \in 1 .. Len(u)  BY <1>3, <3>1
    <3> QED  BY <3>2
  <2> QED  BY <2>1, <2>2
<1> QED  BY <1>4, <1>5, <1>6 DEF Listing, u

(* Flattening listings of disjoint sets lists their union. *)
Pieces(n, seqs, X) ==
  /\ n \in Nat /\ seqs = [i \in 1 .. n |-> seqs[i]]
  /\ \A i \in 1 .. n : Listing(seqs[i], X[i])
  /\ \A i, j \in 1 .. n : i # j => X[i] \cap X[j] = {}

LEMMA FlattenListing ==
  ASSUME NEW n, NEW seqs, NEW X, Pieces(n, seqs, X)
  PROVE  Listing(FlattenSeq(seqs), UNION {X[i] : i \in 1 .. n})
<1>0. /\ n \in Nat /\ seqs = [i \in 1 .. n |-> seqs[i]]
      /\ \A i \in 1 .. n : Listing(seqs[i], X[i])
      /\ \A i, j \in 1 .. n : i # j => X[i] \cap X[j] = {}
  BY DEF Pieces
<1> USE <1>0
<1> DEFINE T == UNION {X[i] : i \in 1 .. n}
           U(i) == UNION {X[j] : j \in 1 .. i}
           G == [i \in 1 .. n |-> {s \in Seq(T) : Listing(s, U(i))}]
<1>1. \A i \in 1 .. n : seqs[i] \in Seq(T)
  <2> SUFFICES ASSUME NEW i \in 1 .. n  PROVE seqs[i] \in Seq(T)
    OBVIOUS
  <2>1. seqs[i] \in Seq(X[i])  BY DEF Listing
  <2>2. \A p \in 1 .. Len(seqs[i]) : seqs[i][p] \in T  BY <2>1
  <2> QED  BY <2>1, <2>2
<1>2. seqs \in Seq(Seq(T)) /\ Len(seqs) = n
  <2> HIDE DEF T
  <2>1. seqs \in [1 .. n -> Seq(T)]  BY <1>1
  <2> QED  BY <2>1
<1>3. CASE n = 0
  <2>1. seqs = <<>> /\ T = {}  BY <1>2, <1>3
  <2>2. FlattenSeq(seqs) = <<>>  BY <2>1 DEF FlattenSeq
  <2> QED  BY <2>1, <2>2 DEF Listing
<1>4. CASE n # 0
  <2>1. seqs[1] \in G[1]
    <3>1. U(1) = X[1]
      <4>1. 1 .. 1 = {1}  OBVIOUS
      <4> QED  BY <4>1
    <3>2. 1 \in 1 .. n  BY <1>4
    <3> HIDE DEF U, T
    <3>3. Listing(seqs[1], U(1)) /\ seqs[1] \in Seq(T)  BY <1>1, <3>1, <3>2
    <3> QED  BY <3>2, <3>3
  <2>2. ASSUME NEW i \in 2 .. n, NEW s \in G[i - 1]  PROVE s \o seqs[i] \in G[i]
    <3>1. i \in 1 .. n /\ i - 1 \in 1 .. n /\ 1 .. i = (1 .. i - 1) \cup {i}
          /\ \A j \in 1 .. i - 1 : j \in 1 .. n /\ j # i
      OBVIOUS
    <3>2. s \in Seq(T) /\ Listing(s, U(i - 1))  BY <2>2, <3>1
    <3>3. U(i - 1) \cap X[i] = {}  BY <3>1
    <3>4. U(i) = U(i - 1) \cup X[i]  BY <3>1
    <3>5. Listing(seqs[i], X[i]) /\ seqs[i] \in Seq(T)  BY <1>1, <3>1
    <3>6. s \o seqs[i] \in Seq(T)  BY <3>2, <3>5
    <3> HIDE DEF U, G, T
    <3>7. Listing(s \o seqs[i], U(i - 1) \cup X[i])  BY <3>2, <3>3, <3>5, ConcatListing
    <3>8. Listing(s \o seqs[i], U(i))  BY <3>4, <3>7
    <3> QED  BY <3>1, <3>6, <3>8 DEF G
  <2>3. n \in 1 .. n /\ seqs # <<>>  BY <1>2, <1>4
  <2> HIDE DEF G
  <2>4. FlattenSeq(seqs) \in G[n]  BY <1>2, <2>1, <2>2, <2>3, FlattenKeeps
  <2> QED  BY <2>3, <2>4 DEF G
<1> QED  BY <1>3, <1>4

-----------------------------------------------------------------------------
(* The list of the arguments that need a suffix, and the loop over it. *)

(* Every deployment in s has its argument behind it. *)
Followed(s) ==
  \A p \in 1 .. Len(s) : s[p].deployed =>
    \E q \in 1 .. Len(s) : p < q /\ s[q] = ArgumentOf(s[p])

LEMMA ConcatFollowed ==
  ASSUME NEW T, NEW s \in Seq(T), NEW t \in Seq(T), Followed(s), Followed(t)
  PROVE  Followed(s \o t)
<1> DEFINE u == s \o t
<1>1. /\ Len(u) = Len(s) + Len(t) /\ Len(s) \in Nat
      /\ \A p \in 1 .. Len(s) : p \in 1 .. Len(u) /\ u[p] = s[p]
      /\ \A p \in 1 .. Len(t) : Len(s) + p \in 1 .. Len(u) /\ u[Len(s) + p] = t[p]
      /\ \A p \in 1 .. Len(u) : \/ p \in 1 .. Len(s)
                                \/ p - Len(s) \in 1 .. Len(t) /\ p = Len(s) + (p - Len(s))
  BY ConcatPlaces
<1> HIDE DEF u
<1> SUFFICES ASSUME NEW p \in 1 .. Len(u), u[p].deployed
             PROVE  \E q \in 1 .. Len(u) : p < q /\ u[q] = ArgumentOf(u[p])
  BY DEF Followed, u
<1>2. CASE p \in 1 .. Len(s)
  <2>1. PICK q \in 1 .. Len(s) : p < q /\ s[q] = ArgumentOf(s[p])  BY <1>1, <1>2 DEF Followed
  <2>2. q \in 1 .. Len(u) /\ u[q] = ArgumentOf(u[p])  BY <1>1, <1>2, <2>1
  <2> QED  BY <2>1, <2>2
<1>3. CASE p \notin 1 .. Len(s)
  <2> DEFINE k == p - Len(s)
  <2>1. k \in 1 .. Len(t) /\ p = Len(s) + k  BY <1>1, <1>3
  <2> HIDE DEF k
  <2>2. u[p] = t[k]  BY <1>1, <2>1
  <2>3. PICK q \in 1 .. Len(t) : k < q /\ t[q] = ArgumentOf(t[k])
    BY <2>1, <2>2 DEF Followed
  <2>4. Len(s) + q \in 1 .. Len(u) /\ u[Len(s) + q] = ArgumentOf(u[p]) /\ p < Len(s) + q
    BY <1>1, <2>1, <2>2, <2>3
  <2> QED  BY <2>4
<1> QED  BY <1>2, <1>3

LEMMA FlattenFollowed ==
  ASSUME NEW T, NEW seqs \in Seq(Seq(T)), \A i \in 1 .. Len(seqs) : Followed(seqs[i])
  PROVE  Followed(FlattenSeq(seqs))
<1>1. CASE seqs = <<>>
  <2>1. FlattenSeq(seqs) = <<>>  BY <1>1 DEF FlattenSeq
  <2> QED  BY <2>1 DEF Followed
<1>2. CASE seqs # <<>>
  <2> DEFINE n == Len(seqs)
             G == [i \in 1 .. n |-> {s \in Seq(T) : Followed(s)}]
  <2>1. n \in Nat \ {0} /\ 1 \in 1 .. n /\ n \in 1 .. n /\ \A i \in 1 .. n : seqs[i] \in Seq(T)
    BY <1>2
  <2>2. seqs[1] \in G[1]  BY <2>1
  <2>3. ASSUME NEW i \in 2 .. n, NEW s \in G[i - 1]  PROVE s \o seqs[i] \in G[i]
    <3>1. i \in 1 .. n /\ i - 1 \in 1 .. n  BY <2>1
    <3>2. s \in Seq(T) /\ Followed(s) /\ seqs[i] \in Seq(T) /\ Followed(seqs[i])
      BY <2>1, <3>1
    <3> QED  BY <3>1, <3>2, ConcatFollowed
  <2> HIDE DEF G
  <2>4. FlattenSeq(seqs) \in G[n]  BY <1>2, <2>2, <2>3, FlattenKeeps
  <2> QED  BY <2>1, <2>4 DEF G
<1> QED  BY <1>1, <1>2

(* The smallest of some numbers. *)
LEMMA MinOf ==
  ASSUME NEW T \in SUBSET Nat, T # {}
  PROVE  Min(T) \in T /\ \A n \in T : Min(T) <= n
<1>1. PICK x \in T : \A y \in T : ~ (<<y, x>> \in OpToRel(<, Nat))
  BY WFMin, NatLessThanWellFounded
<1>2. \A y \in T : x <= y
  <2> SUFFICES ASSUME NEW y \in T, y < x  PROVE FALSE
    OBVIOUS
  <2>1. <<y, x>> \in OpToRel(<, Nat)  BY DEF OpToRel
  <2> QED  BY <1>1, <2>1
<1> QED  BY <1>2 DEF Min

LEMMA RemoveAtPlaces ==
  ASSUME NEW T, NEW s \in Seq(T), NEW p \in 1 .. Len(s)
  PROVE  /\ RemoveAt(s, p) \in Seq(T) /\ Len(RemoveAt(s, p)) = Len(s) - 1
         /\ \A j \in 1 .. Len(s) - 1 : RemoveAt(s, p)[j] = s[IF j < p THEN j ELSE j + 1]
<1> DEFINE a == SubSeq(s, 1, p - 1)
           b == SubSeq(s, p + 1, Len(s))
<1>1. a \in Seq(T) /\ Len(a) = p - 1 /\ \A j \in 1 .. p - 1 : a[j] = s[j]
  BY SubSeqProperties
<1>2. b \in Seq(T) /\ Len(b) = Len(s) - p /\ \A j \in 1 .. Len(s) - p : b[j] = s[p + j]
  BY SubSeqProperties
<1> HIDE DEF a, b
<1>3. a \o b \in Seq(T) /\ Len(a \o b) = Len(s) - 1
  <2>a. a \in Seq(T) /\ b \in Seq(T)  BY <1>1, <1>2
  <2>1. a \o b \in Seq(T) /\ Len(a \o b) = Len(a) + Len(b)  BY <2>a, ConcatPlaces
  <2>2. Len(s) \in Nat /\ p \in Nat  OBVIOUS
  <2>3. (p - 1) + (Len(s) - p) = Len(s) - 1  BY <2>2
  <2> QED  BY <1>1, <1>2, <2>1, <2>3
<1>4. ASSUME NEW j \in 1 .. Len(s) - 1
      PROVE  (a \o b)[j] = s[IF j < p THEN j ELSE j + 1]
  <2>1. (a \o b)[j] = IF j <= Len(a) THEN a[j] ELSE b[j - Len(a)]
    BY <1>1, <1>2, ConcatProperties
  <2>2. CASE j < p  BY <1>1, <2>1, <2>2
  <2>3. CASE ~(j < p)
    <3>1. j - (p - 1) \in 1 .. Len(s) - p /\ p + (j - (p - 1)) = j + 1 /\ ~(j <= p - 1)
      BY <2>3
    <3> QED  BY <1>1, <1>2, <2>1, <2>3, <3>1
  <2> QED  BY <2>2, <2>3
<1> QED  BY <1>3, <1>4 DEF RemoveAt, a, b

(* One place of s has an element of X. *)
Sole(s, X) == \E k \in 1 .. Len(s) : {i \in 1 .. Len(s) : s[i] \in X} = {k}

(* What is left of the places with a property P when one place is removed. *)
LEMMA RemoveOne ==
  ASSUME NEW T, NEW s \in Seq(T), NEW p \in 1 .. Len(s), NEW X,
         NEW j \in 1 .. Len(s), j # p, s[j] \in X,
         \A k \in 1 .. Len(s) : s[k] \in X => k \in {j, p}
  PROVE  Sole(RemoveAt(s, p), X)
<1> DEFINE r == RemoveAt(s, p)
           k == IF j < p THEN j ELSE j - 1
<1>1. Len(r) = Len(s) - 1 /\ \A i \in 1 .. Len(s) - 1 : r[i] = s[IF i < p THEN i ELSE i + 1]
  BY RemoveAtPlaces
<1>2. Len(s) \in Nat /\ p \in Nat /\ j \in Nat  OBVIOUS
<1> HIDE DEF r
<1>3. k \in 1 .. Len(r) /\ (IF k < p THEN k ELSE k + 1) = j  BY <1>1, <1>2
<1> HIDE DEF k
<1>4. r[k] \in X  BY <1>1, <1>3
<1>5. ASSUME NEW i \in 1 .. Len(r), r[i] \in X  PROVE i = k
  <2> DEFINE n == IF i < p THEN i ELSE i + 1
  <2>1. n \in 1 .. Len(s) /\ n # p  BY <1>1, <1>2
  <2>2. r[i] = s[n]  BY <1>1
  <2>3. n = j  BY <1>5, <2>1, <2>2
  <2> QED  BY <1>2, <1>3, <2>3
<1>6. {i \in 1 .. Len(r) : r[i] \in X} = {k}  BY <1>3, <1>4, <1>5
<1> QED  BY <1>3, <1>6 DEF r, Sole

LEMMA RemoveFirstIs ==
  ASSUME NEW T, NEW s \in Seq(T), NEW e, NEW j \in 1 .. Len(s), s[j] = e
  PROVE  \E p \in 1 .. Len(s) : s[p] = e /\ RemoveFirst(s, e) = RemoveAt(s, p)
<1> DEFINE I == {i \in 1 .. Len(s) : s[i] = e}
<1>1. I \in SUBSET Nat /\ I # {}  OBVIOUS
<1>2. Min(I) \in I  BY <1>1, MinOf
<1>3. RemoveFirst(s, e) = RemoveAt(s, Min(I))  BY <1>1 DEF RemoveFirst, SelectInSeq
<1> HIDE DEF I
<1>4. Min(I) \in 1 .. Len(s) /\ s[Min(I)] = e  BY <1>2 DEF I
<1> QED  BY <1>3, <1>4

EntryOver(A) == [deployed : BOOLEAN, arg : A]

(* The entries that the arguments in U, of which those in D are deployed, get. *)
EntriesOf(U, D) == {e \in EntryOver(U) : e.deployed => e.arg \in D}

(* A list that has had other arguments in its first n places and has those *)
(* entries from there on.                                                  *)
Ends(list, n, U, D) ==
  /\ n \in 0 .. Len(list)
  /\ \A p \in 1 .. n : list[p].arg \notin U
  /\ \A p \in n + 1 .. Len(list) : list[p] \in EntriesOf(U, D)
  /\ \A p, q \in n + 1 .. Len(list) : list[p] = list[q] => p = q
  /\ \A a \in U : \E p \in n + 1 .. Len(list) : list[p] = [deployed |-> FALSE, arg |-> a]
  /\ \A p \in n + 1 .. Len(list) : list[p].deployed =>
       \E q \in 1 .. Len(list) : p < q /\ list[q] = ArgumentOf(list[p])

LEMMA ConcatEnds ==
  ASSUME NEW A, NEW U \in SUBSET A, NEW D \in SUBSET U, NEW s \in Seq(EntryOver(A \ U)),
         NEW t, Listing(t, EntriesOf(U, D)), Followed(t)
  PROVE  s \o t \in Seq(EntryOver(A)) /\ Ends(s \o t, Len(s), U, D)
<1> DEFINE list == s \o t
           n == Len(s)
<1>1. s \in Seq(EntryOver(A)) /\ t \in Seq(EntriesOf(U, D)) /\ t \in Seq(EntryOver(A))
  <2>0. \A p \in 1 .. Len(s) : s[p] \in EntryOver(A \ U)  OBVIOUS
  <2>1. \A p \in 1 .. Len(s) : s[p] \in EntryOver(A)  BY <2>0 DEF EntryOver
  <2>2. t \in Seq(EntriesOf(U, D))  BY DEF Listing
  <2>3. EntriesOf(U, D) \subseteq EntryOver(A)  BY DEF EntriesOf, EntryOver
  <2>4. \A p \in 1 .. Len(t) : t[p] \in EntryOver(A)  BY <2>2, <2>3
  <2>5. s \in Seq(EntryOver(A))  BY <2>1
  <2>6. t \in Seq(EntryOver(A))  BY <2>2, <2>4
  <2> QED  BY <2>2, <2>5, <2>6
<1>2. /\ list \in Seq(EntryOver(A)) /\ Len(list) = n + Len(t) /\ n \in Nat /\ Len(t) \in Nat
      /\ \A p \in 1 .. n : p \in 1 .. Len(list) /\ list[p] = s[p]
      /\ \A p \in 1 .. Len(t) : n + p \in 1 .. Len(list) /\ list[n + p] = t[p]
      /\ \A p \in 1 .. Len(list) :
           \/ p \in 1 .. n
           \/ p - n \in 1 .. Len(t) /\ p = n + (p - n)
  BY <1>1, ConcatPlaces
<1>3. \A p \in 1 .. n : s[p].arg \notin U
  <2>1. \A p \in 1 .. n : s[p] \in EntryOver(A \ U)  OBVIOUS
  <2> QED  BY <2>1 DEF EntryOver
<1> HIDE DEF list, n
<1>4. ASSUME NEW p \in n + 1 .. Len(list)
      PROVE  p - n \in 1 .. Len(t) /\ p = n + (p - n) /\ list[p] = t[p - n]
  <2>1. p - n \in 1 .. Len(t) /\ p = n + (p - n)  BY <1>2
  <2> QED  BY <1>2, <2>1
<1>5. \A p \in n + 1 .. Len(list) : list[p] \in EntriesOf(U, D)  BY <1>1, <1>4
<1>6. ASSUME NEW p \in n + 1 .. Len(list), NEW q \in n + 1 .. Len(list), list[p] = list[q]
      PROVE  p = q
  <2>1. t[p - n] = t[q - n]  BY <1>4, <1>6
  <2>2. p - n = q - n  BY <1>4, <2>1 DEF Listing
  <2> QED  BY <1>4, <2>2
<1>7. ASSUME NEW a \in U
      PROVE  \E p \in n + 1 .. Len(list) : list[p] = [deployed |-> FALSE, arg |-> a]
  <2>1. [deployed |-> FALSE, arg |-> a] \in EntriesOf(U, D)  BY DEF EntriesOf, EntryOver
  <2>2. PICK p \in 1 .. Len(t) : t[p] = [deployed |-> FALSE, arg |-> a]
    BY <2>1 DEF Listing
  <2>3. n + p \in n + 1 .. Len(list)  BY <1>2
  <2> QED  BY <1>2, <2>2, <2>3
<1>8. ASSUME NEW p \in n + 1 .. Len(list), list[p].deployed
      PROVE  \E q \in 1 .. Len(list) : p < q /\ list[q] = ArgumentOf(list[p])
  <2>1. PICK q \in 1 .. Len(t) : p - n < q /\ t[q] = ArgumentOf(t[p - n])
    BY <1>4, <1>8 DEF Followed
  <2>2. n + q \in 1 .. Len(list) /\ list[n + q] = ArgumentOf(list[p])  BY <1>2, <1>4, <2>1
  <2>3. p < n + q  BY <1>2, <1>4, <2>1
  <2> QED  BY <2>2, <2>3
<1> QED  BY <1>2, <1>3, <1>5, <1>6, <1>7, <1>8 DEF Ends, list, n

LEMMA PlacesAre ==
  ASSUME NEW T, NEW list \in Seq(T), NEW a
  PROVE  Places(list, a) = {k \in 1 .. Len(list) : list[k].arg = a}
<1>1. DOMAIN list = 1 .. Len(list)  OBVIOUS
<1> QED  BY <1>1 DEF Places

(* The argument has one entry. *)
Single(list, a) == \E k : Places(list, a) = {k}

(* i is the entry that the argument gets in any case; the others are deployments. *)
Own(list, n, D, a, i) ==
  /\ list[i] = [deployed |-> FALSE, arg |-> a]
  /\ \A k \in 1 .. Len(list) : list[k].arg = a /\ k # i =>
       k \in n + 1 .. Len(list) /\ list[k].deployed /\ list[k].arg \in D

LEMMA OthersDeployed ==
  ASSUME NEW A, NEW U, NEW D, NEW list \in Seq(EntryOver(A)), NEW n,
         Ends(list, n, U, D), NEW a \in U
  PROVE  \E i \in 1 .. Len(list) : Own(list, n, D, a, i)
<1>1. PICK i \in n + 1 .. Len(list) : list[i] = [deployed |-> FALSE, arg |-> a]
  BY DEF Ends
<1>2. n \in Nat /\ Len(list) \in Nat  BY DEF Ends
<1>3. ASSUME NEW k \in 1 .. Len(list), list[k].arg = a, k # i
      PROVE  k \in n + 1 .. Len(list) /\ list[k].deployed /\ list[k].arg \in D
  <2>1. k \in n + 1 .. Len(list)  BY <1>2, <1>3 DEF Ends
  <2>2. list[k] # list[i]  BY <1>1, <1>3, <2>1 DEF Ends
  <2>3. list[k] \in EntriesOf(U, D)  BY <2>1 DEF Ends
  <2>4. list[k].deployed  BY <1>1, <1>3, <2>2, <2>3 DEF EntriesOf, EntryOver
  <2> QED  BY <2>1, <2>3, <2>4 DEF EntriesOf
<1> QED  BY <1>1, <1>2, <1>3 DEF Own

LEMMA OnceAlone ==
  ASSUME NEW A, NEW U, NEW list \in Seq(EntryOver(A)), NEW n,
         Ends(list, n, U, {}), NEW a \in U
  PROVE  Single(list, a)
<1>1. PICK i \in 1 .. Len(list) : Own(list, n, {}, a, i)
  BY OthersDeployed
<1>2. Places(list, a) = {i}  BY <1>1, PlacesAre DEF Own
<1> QED  BY <1>2 DEF Single

LEMMA TwinsAre ==
  ASSUME NEW T, NEW list \in Seq(T)
  PROVE  \A k : k \in Twins(list) <=>
           /\ k \in 1 .. Len(list) /\ list[k].deployed
           /\ \E q \in 1 .. Len(list) : list[q] = ArgumentOf(list[k])
<1>1. DOMAIN list = 1 .. Len(list)  OBVIOUS
<1>2. \A e : e \in ToSet(list) <=> \E q \in 1 .. Len(list) : list[q] = e
  BY <1>1 DEF ToSet
<1> QED  BY <1>1, <1>2 DEF Twins, ArgumentOf

(* A loop over the list that does not throw has dropped, of two entries of an *)
(* argument, the one that is not the deployment.                              *)
LEMMA OncePruned ==
  ASSUME NEW A, NEW U, NEW D, NEW list \in Seq(EntryOver(A)), NEW n,
         Ends(list, n, U, D), ~PruneThrows(list), NEW a \in U
  PROVE  Single(Pruned(list), a)
<1> DEFINE L == Len(list)
           P == Min(Twins(list))
           e == ArgumentOf(list[P])
<1>0. n \in Nat /\ L \in Nat /\ n <= L  BY DEF Ends
<1>1. \A p \in 1 .. L : list[p] \in EntryOver(A)  OBVIOUS
<1>2. \A k : k \in Twins(list) <=>
             k \in 1 .. L /\ list[k].deployed /\ \E q \in 1 .. L : list[q] = ArgumentOf(list[k])
  BY TwinsAre
<1>3. ASSUME NEW p \in n + 1 .. L, list[p].deployed  PROVE p \in Twins(list) /\ p < L
  <2>1. PICK q \in 1 .. L : p < q /\ list[q] = ArgumentOf(list[p])  BY <1>3 DEF Ends
  <2>2. p \in 1 .. L  BY <1>0
  <2> QED  BY <1>0, <1>2, <1>3, <2>1, <2>2
<1>6. PICK i \in 1 .. Len(list) : Own(list, n, D, a, i)
  BY OthersDeployed
<1>4. CASE Twins(list) = {}
  <2>1. Pruned(list) = list  BY <1>4 DEF Pruned
  <2>2. Places(list, a) = {i}
    <3>1. \A k \in 1 .. L : list[k].arg = a => k = i  BY <1>3, <1>4, <1>6 DEF Own
    <3> QED  BY <1>6, <3>1, PlacesAre DEF Own
  <2> QED  BY <2>1, <2>2 DEF Single
<1>5. CASE Twins(list) # {}
  <2>1. P \in Twins(list) /\ (\A k \in Twins(list) : P <= k) /\ P = L - 1
    <3>1. Twins(list) \in SUBSET Nat  BY <1>2
    <3>2. P \in Twins(list) /\ \A k \in Twins(list) : P <= k  BY <1>5, <3>1, MinOf
    <3>3. P = L - 1  BY <1>5 DEF PruneThrows
    <3> QED  BY <3>2, <3>3
  <2>2. Pruned(list) = RemoveFirst(list, e)  BY <1>5 DEF Pruned, ArgumentOf
  <2> HIDE DEF P
  <2>3. P \in 1 .. L /\ list[P].deployed /\ \E q \in 1 .. L : list[q] = e
    BY <1>2, <2>1
  <2>4. e.arg = list[P].arg /\ ~e.deployed
    BY <1>1, <2>3 DEF EntryOver, ArgumentOf
  <2> HIDE DEF e
  <2>5. PICK p \in 1 .. L : list[p] = e /\ Pruned(list) = RemoveAt(list, p)
    BY <2>2, <2>3, RemoveFirstIs
  <2>6. \A k \in n + 1 .. L : list[k].deployed => k = P
    <3> SUFFICES ASSUME NEW k \in n + 1 .. L, list[k].deployed  PROVE k = P
      OBVIOUS
    <3>1. P <= k /\ k < L  BY <1>3, <2>1
    <3> QED  BY <1>0, <2>1, <3>1
  <2> DEFINE X == {x \in EntryOver(A) : x.arg = a}
  <2>7. \A k \in 1 .. L : list[k] \in X <=> list[k].arg = a  BY <1>1
  <2>9. i \in 1 .. L /\ list[i].arg = a  BY <1>6 DEF Own
  (* An entry of a that is not this one is a deployment. *)
  <2>10. ASSUME NEW k \in 1 .. L, list[k].arg = a, k # i  PROVE k = P /\ k \in n + 1 .. L
    BY <1>6, <2>6, <2>10 DEF Own
  <2>11. \E j \in 1 .. L : j # p /\ list[j] \in X /\ \A k \in 1 .. L : list[k] \in X => k \in {j, p}
    <3>1. CASE i # p
      <4>1. ASSUME NEW k \in 1 .. L, list[k].arg = a, k # i  PROVE FALSE
        <5>1. k = P /\ list[p].arg = a  BY <2>4, <2>5, <2>10, <4>1
        <5>2. p = P  BY <2>10, <3>1, <5>1
        <5> QED  BY <2>3, <2>4, <2>5, <5>2
      <4>2. \A k \in 1 .. L : list[k] \in X => k \in {i, p}  BY <2>7, <4>1
      <4> QED  BY <2>7, <2>9, <3>1, <4>2
    <3>2. CASE i = p
      <4>1. list[P].arg = a  BY <2>4, <2>5, <2>9, <3>2
      <4>2. P # p  BY <2>3, <2>4, <2>5
      <4>3. \A k \in 1 .. L : list[k] \in X => k \in {P, p}  BY <2>7, <2>10, <3>2
      <4> QED  BY <2>3, <2>7, <4>1, <4>2, <4>3
    <3> QED  BY <3>1, <3>2
  <2> DEFINE r == RemoveAt(list, p)
  <2>12. Sole(r, X)
    <3>1. PICK j \in 1 .. L :
            j # p /\ list[j] \in X /\ \A k \in 1 .. L : list[k] \in X => k \in {j, p}
      BY <2>11
    <3> HIDE DEF X
    <3> QED  BY <3>1, RemoveOne
  <2>13. \A k \in 1 .. Len(r) : r[k] \in X <=> r[k].arg = a
    <3>1. r \in Seq(EntryOver(A))  BY RemoveAtPlaces
    <3>2. \A k \in 1 .. Len(r) : r[k] \in EntryOver(A)  BY <3>1
    <3> QED  BY <3>2
  <2>14. Places(r, a) = {j \in 1 .. Len(r) : r[j] \in X}
    <3>1. r \in Seq(EntryOver(A))  BY RemoveAtPlaces
    <3> QED  BY <2>13, <3>1, PlacesAre
  <2> QED  BY <2>5, <2>12, <2>14 DEF Sole, Single
<1> QED  BY <1>4, <1>5

(* Nothing gets in by the loop. *)
LEMMA PrunedIn ==
  ASSUME NEW T, NEW list \in Seq(T)
  PROVE  Pruned(list) \in Seq(T)
<1>1. CASE Twins(list) = {}
  BY <1>1 DEF Pruned
<1>2. CASE Twins(list) # {}
  <2> DEFINE P == Min(Twins(list))
             e == ArgumentOf(list[P])
  <2>1. Twins(list) \in SUBSET Nat  BY DEF Twins
  <2>2. P \in Twins(list)  BY <1>2, <2>1, MinOf
  <2>3. Pruned(list) = RemoveFirst(list, e)  BY <1>2 DEF Pruned
  <2> HIDE DEF P
  <2>4. \E q \in 1 .. Len(list) : list[q] = e  BY <2>2, TwinsAre
  <2> HIDE DEF e
  <2>5. PICK p \in 1 .. Len(list) : Pruned(list) = RemoveAt(list, p)
    BY <2>3, <2>4, RemoveFirstIs
  <2> QED  BY <2>5, RemoveAtPlaces
<1> QED  BY <1>1, <1>2

LEMMA NoPlaces ==
  ASSUME NEW A, NEW a, a \notin A, NEW list \in Seq(EntryOver(A))
  PROVE  Places(list, a) = {}
<1>1. \A k \in 1 .. Len(list) : list[k] \in EntryOver(A)  OBVIOUS
<1> QED  BY <1>1, PlacesAre DEF EntryOver

-----------------------------------------------------------------------------
(* What validateInterfaceAndElementsName() puts into the list. *)

(* Entries of different methods, arguments or kinds are different. *)
LEMMA EntryIs ==
  ASSUME NEW run, NEW i, NEW m, NEW name, NEW d,
         NEW i2, NEW m2, NEW name2, NEW d2,
         Entry(run, i, m, name, d) = Entry(run, i2, m2, name2, d2)
  PROVE  i = i2 /\ m = m2 /\ name = name2 /\ d = d2
BY DEF Entry

(* The inner sequence of Entries(). *)
MethodEntries(run, i, m, method, equal, d) ==
  FlattenSeq([k \in DOMAIN method.out |->
    IF method.out[k] \in equal THEN <<Entry(run, i, m, method.out[k], d)>> ELSE <<>>])

MethodSet(run, i, m, equal, d) == {Entry(run, i, m, name, d) : name \in equal}

LEMMA MethodListing ==
  ASSUME NEW run, NEW i, NEW m, NEW method \in Method, NEW d,
         NEW equal, equal \subseteq ToSet(method.out)
  PROVE  Listing(MethodEntries(run, i, m, method, equal, d), MethodSet(run, i, m, equal, d))
<1> DEFINE out == method.out
           n == Len(out)
           seqs == [k \in 1 .. n |->
                     IF out[k] \in equal THEN <<Entry(run, i, m, out[k], d)>> ELSE <<>>]
           X == [k \in 1 .. n |-> IF out[k] \in equal THEN {Entry(run, i, m, out[k], d)} ELSE {}]
<1>1. /\ out \in Seq(STRING) /\ \A j, k \in DOMAIN out : out[j] = out[k] => j = k
      /\ DOMAIN out = 1 .. n /\ n \in Nat
  <2>1. out \in Seq(STRING) /\ \A j, k \in DOMAIN out : out[j] = out[k] => j = k  BY DEF Method
  <2> HIDE DEF out
  <2> QED  BY <2>1
<1> HIDE DEF out, n
<1>2. \A k \in 1 .. n : Listing(seqs[k], X[k])
  <2> SUFFICES ASSUME NEW k \in 1 .. n  PROVE Listing(seqs[k], X[k])
    OBVIOUS
  <2>1. CASE out[k] \in equal
    <3> DEFINE e == Entry(run, i, m, out[k], d)
    <3>1. seqs[k] = <<e>> /\ X[k] = {e}  BY <2>1
    <3> HIDE DEF e, seqs, X
    <3>2. <<e>> \in Seq({e}) /\ Len(<<e>>) = 1 /\ <<e>>[1] = e  OBVIOUS
    <3>3. 1 .. 1 = {1}  OBVIOUS
    <3> QED  BY <3>1, <3>2, <3>3 DEF Listing
  <2>2. CASE out[k] \notin equal
    <3>1. seqs[k] = <<>> /\ X[k] = {}  BY <2>2
    <3> HIDE DEF seqs, X
    <3> QED  BY <3>1 DEF Listing
  <2> QED  BY <2>1, <2>2
<1>3. \A j, k \in 1 .. n : j # k => X[j] \cap X[k] = {}
  <2> SUFFICES ASSUME NEW j \in 1 .. n, NEW k \in 1 .. n, j # k,
                      Entry(run, i, m, out[j], d) = Entry(run, i, m, out[k], d)
               PROVE  FALSE
    OBVIOUS
  <2>1. out[j] = out[k]  BY EntryIs
  <2> QED  BY <1>1, <2>1
<1>4. UNION {X[k] : k \in 1 .. n} = {Entry(run, i, m, name, d) : name \in equal}
  <2>1. \A name \in equal : \E k \in 1 .. n : out[k] = name  BY <1>1 DEF ToSet, out
  <2>2. ASSUME NEW name \in equal
        PROVE  Entry(run, i, m, name, d) \in UNION {X[k] : k \in 1 .. n}
    <3>1. PICK k \in 1 .. n : out[k] = name  BY <2>1
    <3>2. Entry(run, i, m, name, d) \in X[k]  BY <3>1
    <3> QED  BY <3>2
  <2>3. ASSUME NEW k \in 1 .. n, NEW e \in X[k]
        PROVE  e \in {Entry(run, i, m, name, d) : name \in equal}
    BY <2>3
  <2> QED  BY <2>2, <2>3
<1>5. seqs = [k \in 1 .. n |-> seqs[k]]  OBVIOUS
<1>6. MethodEntries(run, i, m, method, equal, d) = FlattenSeq(seqs)
  BY <1>1 DEF MethodEntries, out
<1> HIDE DEF X, seqs
<1>7. Listing(FlattenSeq(seqs), UNION {X[k] : k \in 1 .. n})
  <2>1. Pieces(n, seqs, X)  BY <1>1, <1>2, <1>3, <1>5 DEF Pieces
  <2> QED  BY <2>1, FlattenListing
<1> QED  BY <1>4, <1>6, <1>7 DEF MethodSet

Equals(method, d) == IF d THEN EqualDeployed(method) ELSE EqualAll(method)

EntrySet(run, i, interface, d) ==
  UNION {{Entry(run, i, m, name, d) : name \in Equals(interface[m], d)} : m \in 1 .. Len(interface)}

LEMMA EntriesListing ==
  ASSUME NEW run, NEW i, NEW interface \in Seq(Method), NEW d
  PROVE  Listing(Entries(run, i, interface, d), EntrySet(run, i, interface, d))
<1> DEFINE n == Len(interface)
           S(m) == MethodEntries(run, i, m, interface[m], Equals(interface[m], d), d)
           seqs == [m \in 1 .. n |-> S(m)]
           X == [m \in 1 .. n |-> {Entry(run, i, m, name, d) : name \in Equals(interface[m], d)}]
<1>1. n \in Nat /\ DOMAIN interface = 1 .. n  OBVIOUS
<1>2. \A m \in 1 .. n : Listing(seqs[m], X[m])
  <2> SUFFICES ASSUME NEW m \in 1 .. n  PROVE Listing(S(m), X[m])
    OBVIOUS
  <2>1. interface[m] \in Method  OBVIOUS
  <2>2. Equals(interface[m], d) \subseteq ToSet(interface[m].out)
    BY DEF Equals, EqualDeployed, EqualAll
  <2>3. Listing(S(m), MethodSet(run, i, m, Equals(interface[m], d), d))
    BY <2>1, <2>2, MethodListing
  <2> QED  BY <2>3 DEF MethodSet
<1>3. \A m, m2 \in 1 .. n : m # m2 => X[m] \cap X[m2] = {}
  <2> SUFFICES ASSUME NEW m \in 1 .. n, NEW m2 \in 1 .. n, m # m2, NEW name, NEW name2,
                      Entry(run, i, m, name, d) = Entry(run, i, m2, name2, d)
               PROVE  FALSE
    OBVIOUS
  <2> QED  BY EntryIs
<1>4. UNION {X[m] : m \in 1 .. n} = EntrySet(run, i, interface, d)
  BY DEF EntrySet
<1>5. seqs = [m \in 1 .. n |-> seqs[m]]  OBVIOUS
<1>6. Entries(run, i, interface, d) = FlattenSeq(seqs)
  BY <1>1 DEF Entries, Equals, MethodEntries
<1> HIDE DEF X, seqs
<1>7. Listing(FlattenSeq(seqs), UNION {X[m] : m \in 1 .. n})
  <2>1. Pieces(n, seqs, X)  BY <1>1, <1>2, <1>3, <1>5 DEF Pieces
  <2> QED  BY <2>1, FlattenListing
<1> QED  BY <1>4, <1>6, <1>7

IsEntry(run, i, interface, d, e) ==
  \E m \in 1 .. Len(interface) : \E name \in Equals(interface[m], d) :
    e = Entry(run, i, m, name, d)

LEMMA EntrySetHas ==
  ASSUME NEW run, NEW i, NEW interface, NEW d, NEW e
  PROVE  e \in EntrySet(run, i, interface, d) <=> IsEntry(run, i, interface, d, e)
BY DEF EntrySet, IsEntry

(* The arguments of the interfaces that have entries of a kind. *)
ArgsOf(run, interfaces, d) ==
  UNION {UNION {{<<run, i, m, name>> : name \in Equals(interfaces[i][m], d)}
                  : m \in 1 .. Len(interfaces[i])} : i \in 1 .. Len(interfaces)}

DeployedArgs(run, f, interfaces) == IF f \in Fidl THEN {} ELSE ArgsOf(run, interfaces, TRUE)

IsArg(run, interfaces, d, a) ==
  \E i \in 1 .. Len(interfaces) : \E m \in 1 .. Len(interfaces[i]) :
    \E name \in Equals(interfaces[i][m], d) : a = <<run, i, m, name>>

LEMMA ArgsOfHas ==
  ASSUME NEW run, NEW interfaces, NEW d, NEW a
  PROVE  a \in ArgsOf(run, interfaces, d) <=> IsArg(run, interfaces, d, a)
BY DEF ArgsOf, IsArg

DeployedSet(run, f, i, interface) == IF f \in Fidl THEN {} ELSE EntrySet(run, i, interface, TRUE)
DeployedEntries(run, f, i, interface) ==
  IF f \in Fidl THEN <<>> ELSE Entries(run, i, interface, TRUE)

LEMMA ArgumentOfEntry ==
  ASSUME NEW run, NEW i, NEW m, NEW name, NEW d
  PROVE  ArgumentOf(Entry(run, i, m, name, d)) = Entry(run, i, m, name, FALSE)
BY DEF ArgumentOf, Entry

LEMMA ElementsIn ==
  ASSUME NEW S, NEW T, NEW s \in Seq(S), \A p \in 1 .. Len(s) : s[p] \in T
  PROVE  s \in Seq(T)
OBVIOUS

(* What one interface adds. *)
LEMMA InterfaceListing ==
  ASSUME NEW run, NEW f, NEW i, NEW interface \in Seq(Method)
  PROVE  LET s == DeployedEntries(run, f, i, interface) \o Entries(run, i, interface, FALSE)
         IN  /\ Listing(s, DeployedSet(run, f, i, interface)
                              \cup EntrySet(run, i, interface, FALSE))
             /\ Followed(s)
<1> DEFINE s == DeployedEntries(run, f, i, interface)
           t == Entries(run, i, interface, FALSE)
           X == DeployedSet(run, f, i, interface)
           Y == EntrySet(run, i, interface, FALSE)
           T == X \cup Y
<1>1. Listing(s, X)
  <2>1. CASE f \in Fidl
    <3>1. s = <<>> /\ X = {}  BY <2>1 DEF DeployedEntries, DeployedSet
    <3> HIDE DEF s, X
    <3> QED  BY <3>1 DEF Listing
  <2>2. CASE f \notin Fidl
    BY <2>2, EntriesListing DEF DeployedEntries, DeployedSet
  <2> QED  BY <2>1, <2>2
<1>2. Listing(t, Y)  BY EntriesListing
<1>3. (\A e \in X : e.deployed) /\ (\A e \in Y : ~e.deployed)
  <2>1. ASSUME NEW d \in BOOLEAN, NEW e \in EntrySet(run, i, interface, d)  PROVE e.deployed = d
    <3>1. IsEntry(run, i, interface, d, e)  BY <2>1, EntrySetHas
    <3> QED  BY <3>1 DEF IsEntry, Entry
  <2> QED  BY <2>1 DEF DeployedSet
<1>4. \A e \in X : ArgumentOf(e) \in Y
  <2> SUFFICES ASSUME NEW e \in X  PROVE ArgumentOf(e) \in Y
    OBVIOUS
  <2>1. e \in EntrySet(run, i, interface, TRUE)  BY DEF DeployedSet
  <2>2a. IsEntry(run, i, interface, TRUE, e)  BY <2>1, EntrySetHas
  <2>2b. PICK m \in 1 .. Len(interface) : \E name \in Equals(interface[m], TRUE) :
           e = Entry(run, i, m, name, TRUE)
    BY <2>2a DEF IsEntry
  <2>2. PICK name \in Equals(interface[m], TRUE) : e = Entry(run, i, m, name, TRUE)
    BY <2>2b
  <2>3. name \in Equals(interface[m], FALSE)  BY DEF Equals, EqualDeployed
  <2>4. ArgumentOf(e) = Entry(run, i, m, name, FALSE)  BY <2>2, ArgumentOfEntry
  <2>5. IsEntry(run, i, interface, FALSE, ArgumentOf(e))  BY <2>3, <2>4 DEF IsEntry
  <2> QED  BY <2>5, EntrySetHas
<1> HIDE DEF X, Y, s, t
<1>5. X \cap Y = {}  BY <1>3
<1>6. Listing(s \o t, X \cup Y)  BY <1>1, <1>2, <1>5, ConcatListing
<1>7. Followed(s \o t)
  <2> DEFINE u == s \o t
  <2>1. s \in Seq(X) /\ t \in Seq(Y)  BY <1>1, <1>2 DEF Listing
  <2>2. (\A p \in 1 .. Len(s) : s[p] \in X) /\ (\A p \in 1 .. Len(t) : t[p] \in Y)
    BY <2>1
  <2>3. s \in Seq(T) /\ t \in Seq(T)  BY <2>1, <2>2
  <2> HIDE DEF T
  <2>4. /\ Len(u) = Len(s) + Len(t) /\ Len(s) \in Nat
        /\ \A p \in 1 .. Len(s) : p \in 1 .. Len(u) /\ u[p] = s[p]
        /\ \A p \in 1 .. Len(t) : Len(s) + p \in 1 .. Len(u) /\ u[Len(s) + p] = t[p]
        /\ \A p \in 1 .. Len(u) : \/ p \in 1 .. Len(s)
                                  \/ p - Len(s) \in 1 .. Len(t) /\ p = Len(s) + (p - Len(s))
    BY <2>3, ConcatPlaces
  <2> HIDE DEF u
  <2>5. ASSUME NEW p \in 1 .. Len(u), u[p].deployed
        PROVE  \E q \in 1 .. Len(u) : p < q /\ u[q] = ArgumentOf(u[p])
    <3>1. p \in 1 .. Len(s)
      <4> SUFFICES ASSUME p \notin 1 .. Len(s)  PROVE FALSE
        OBVIOUS
      <4> DEFINE k == p - Len(s)
      <4>1. k \in 1 .. Len(t) /\ p = Len(s) + k  BY <2>4
      <4> HIDE DEF k
      <4>2. u[p] \in Y  BY <2>2, <2>4, <4>1
      <4> QED  BY <1>3, <2>5, <4>2
    <3>2. u[p] \in X  BY <2>2, <2>4, <3>1
    <3>3. PICK q \in 1 .. Len(t) : t[q] = ArgumentOf(u[p])
      BY <1>2, <1>4, <3>2 DEF Listing
    <3>4. Len(s) + q \in 1 .. Len(u) /\ u[Len(s) + q] = ArgumentOf(u[p]) /\ p < Len(s) + q
      BY <2>4, <3>1, <3>3
    <3> QED  BY <3>4
  <2> QED  BY <2>5 DEF Followed, u
<1> QED  BY <1>6, <1>7 DEF s, t, X, Y

LEMMA CollectedListing ==
  ASSUME NEW run, NEW f, NEW interfaces \in Seq(Seq(Method))
  PROVE  /\ Listing(Collected(run, f, interfaces),
                    EntriesOf(ArgsOf(run, interfaces, FALSE), DeployedArgs(run, f, interfaces)))
         /\ Followed(Collected(run, f, interfaces))
<1> DEFINE n == Len(interfaces)
           U == ArgsOf(run, interfaces, FALSE)
           D == DeployedArgs(run, f, interfaces)
           S(i) == DeployedEntries(run, f, i, interfaces[i]) \o Entries(run, i, interfaces[i], FALSE)
           seqs == [i \in 1 .. n |-> S(i)]
           X == [i \in 1 .. n |->
                  DeployedSet(run, f, i, interfaces[i]) \cup EntrySet(run, i, interfaces[i], FALSE)]
           T == UNION {X[k] : k \in 1 .. n}
<1>1. n \in Nat /\ DOMAIN interfaces = 1 .. n /\ \A i \in 1 .. n : interfaces[i] \in Seq(Method)
  OBVIOUS
<1>2. \A i \in 1 .. n : Listing(seqs[i], X[i]) /\ Followed(seqs[i])
  <2> SUFFICES ASSUME NEW i \in 1 .. n  PROVE Listing(S(i), X[i]) /\ Followed(S(i))
    OBVIOUS
  <2>1. interfaces[i] \in Seq(Method)  BY <1>1
  <2>2. X[i] = DeployedSet(run, f, i, interfaces[i]) \cup EntrySet(run, i, interfaces[i], FALSE)
    OBVIOUS
  <2> QED  BY <2>1, <2>2, InterfaceListing
<1>3. \A i \in 1 .. n : \A e \in X[i] : \E m, name, d : e = Entry(run, i, m, name, d)
  <2> SUFFICES ASSUME NEW i \in 1 .. n, NEW e \in X[i]
               PROVE  \E m, name, d : e = Entry(run, i, m, name, d)
    OBVIOUS
  <2>1. \/ e \in EntrySet(run, i, interfaces[i], TRUE)
        \/ e \in EntrySet(run, i, interfaces[i], FALSE)
    BY DEF DeployedSet
  <2>2. \/ IsEntry(run, i, interfaces[i], TRUE, e)
        \/ IsEntry(run, i, interfaces[i], FALSE, e)
    BY <2>1, EntrySetHas
  <2> QED  BY <2>2 DEF IsEntry
<1>4. \A i, j \in 1 .. n : i # j => X[i] \cap X[j] = {}
  <2> SUFFICES ASSUME NEW i \in 1 .. n, NEW j \in 1 .. n, i # j, NEW e \in X[i], e \in X[j]
               PROVE  FALSE
    OBVIOUS
  <2> HIDE DEF X
  <2>1. PICK m, name, d : e = Entry(run, i, m, name, d)  BY <1>3
  <2>2. PICK m2, name2, d2 : e = Entry(run, j, m2, name2, d2)  BY <1>3
  <2>3. Entry(run, i, m, name, d) = Entry(run, j, m2, name2, d2)  BY <2>1, <2>2
  <2>4. i = j  BY <2>3, EntryIs
  <2> QED  BY <2>4
<1>5. T = EntriesOf(U, D)
  <2>1. ASSUME NEW i \in 1 .. n, NEW e \in X[i]  PROVE e \in EntriesOf(U, D)
    <3>1. CASE f \notin Fidl /\ e \in EntrySet(run, i, interfaces[i], TRUE)
      <4>1a. PICK m \in 1 .. Len(interfaces[i]) : \E name \in Equals(interfaces[i][m], TRUE) :
               e = Entry(run, i, m, name, TRUE)
        <5>1. IsEntry(run, i, interfaces[i], TRUE, e)  BY <3>1, EntrySetHas
        <5> QED  BY <5>1 DEF IsEntry
      <4>1. PICK name \in Equals(interfaces[i][m], TRUE) : e = Entry(run, i, m, name, TRUE)
        BY <4>1a
      <4>2. name \in Equals(interfaces[i][m], FALSE)  BY DEF Equals, EqualDeployed
      <4>3. <<run, i, m, name>> \in U  BY <4>2, ArgsOfHas DEF IsArg
      <4>4. <<run, i, m, name>> \in D  BY <3>1, ArgsOfHas DEF DeployedArgs, IsArg
      <4> HIDE DEF U, D
      <4> QED  BY <4>1, <4>3, <4>4 DEF Entry, EntriesOf, EntryOver
    <3>2. CASE e \in EntrySet(run, i, interfaces[i], FALSE)
      <4>1a. PICK m \in 1 .. Len(interfaces[i]) : \E name \in Equals(interfaces[i][m], FALSE) :
               e = Entry(run, i, m, name, FALSE)
        <5>1. IsEntry(run, i, interfaces[i], FALSE, e)  BY <3>2, EntrySetHas
        <5> QED  BY <5>1 DEF IsEntry
      <4>1. PICK name \in Equals(interfaces[i][m], FALSE) : e = Entry(run, i, m, name, FALSE)
        BY <4>1a
      <4>2. <<run, i, m, name>> \in U  BY ArgsOfHas DEF IsArg
      <4> HIDE DEF U, D
      <4> QED  BY <4>1, <4>2 DEF Entry, EntriesOf, EntryOver
    <3> QED  BY <2>1, <3>1, <3>2 DEF DeployedSet
  <2>2. ASSUME NEW e \in EntriesOf(U, D)  PROVE \E i \in 1 .. n : e \in X[i]
    <3>1. CASE e.deployed
      <4>1. e.arg \in D /\ e \in EntryOver(U)  BY <2>2, <3>1 DEF EntriesOf
      <4>2. f \notin Fidl /\ e.arg \in ArgsOf(run, interfaces, TRUE)  BY <4>1 DEF DeployedArgs
      <4>3a. PICK i \in 1 .. n :
               \E m \in 1 .. Len(interfaces[i]) : \E name \in Equals(interfaces[i][m], TRUE) :
               e.arg = <<run, i, m, name>>
        <5>1. IsArg(run, interfaces, TRUE, e.arg)  BY <4>2, ArgsOfHas
        <5> QED  BY <5>1 DEF IsArg
      <4>3b. PICK m \in 1 .. Len(interfaces[i]) :
               \E name \in Equals(interfaces[i][m], TRUE) : e.arg = <<run, i, m, name>>
        BY <4>3a
      <4>3. PICK name \in Equals(interfaces[i][m], TRUE) : e.arg = <<run, i, m, name>>
        BY <4>3b
      <4>4. e = Entry(run, i, m, name, TRUE)  BY <3>1, <4>1, <4>3 DEF Entry, EntryOver
      <4>5. e \in EntrySet(run, i, interfaces[i], TRUE)  BY <4>4, EntrySetHas DEF IsEntry
      <4> QED  BY <4>2, <4>5 DEF DeployedSet
    <3>2. CASE ~e.deployed
      <4>1. e \in EntryOver(U)  BY <2>2 DEF EntriesOf
      <4>2. e.arg \in U  BY <4>1 DEF EntryOver
      <4>3a. PICK i \in 1 .. n :
               \E m \in 1 .. Len(interfaces[i]) : \E name \in Equals(interfaces[i][m], FALSE) :
               e.arg = <<run, i, m, name>>
        <5>1. IsArg(run, interfaces, FALSE, e.arg)  BY <4>2, ArgsOfHas
        <5> QED  BY <5>1 DEF IsArg
      <4>3b. PICK m \in 1 .. Len(interfaces[i]) :
               \E name \in Equals(interfaces[i][m], FALSE) : e.arg = <<run, i, m, name>>
        BY <4>3a
      <4>3. PICK name \in Equals(interfaces[i][m], FALSE) : e.arg = <<run, i, m, name>>
        BY <4>3b
      <4>4. e = Entry(run, i, m, name, FALSE)  BY <3>2, <4>1, <4>3 DEF Entry, EntryOver
      <4>5. e \in EntrySet(run, i, interfaces[i], FALSE)  BY <4>4, EntrySetHas DEF IsEntry
      <4> QED  BY <4>5
    <3> QED  BY <3>1, <3>2
  <2>3. T \subseteq EntriesOf(U, D)
    <3> HIDE DEF X, U, D
    <3> QED  BY <2>1
  <2>4. EntriesOf(U, D) \subseteq T
    <3> HIDE DEF X, U, D
    <3> QED  BY <2>2
  <2> HIDE DEF T, U, D
  <2> QED  BY <2>3, <2>4
<1>6. Collected(run, f, interfaces) = FlattenSeq(seqs)
  BY <1>1 DEF Collected, DeployedEntries
<1>7. seqs = [i \in 1 .. n |-> seqs[i]]  OBVIOUS
<1>8. Len(seqs) = n  BY <1>1
<1> HIDE DEF X, seqs, U, D
<1>9. Listing(FlattenSeq(seqs), T)
  <2>1. \A i \in 1 .. n : Listing(seqs[i], X[i])  BY <1>2
  <2>0. n \in Nat  BY <1>1
  <2> HIDE DEF n
  <2>2. Listing(FlattenSeq(seqs), UNION {X[k] : k \in 1 .. n})
    <3>1. Pieces(n, seqs, X)  BY <2>0, <1>4, <1>7, <2>1 DEF Pieces
    <3> QED  BY <3>1, FlattenListing
  <2> QED  BY <2>2
<1>10. Followed(FlattenSeq(seqs))
  <2>1. \A i \in 1 .. n : seqs[i] \in Seq(T)
    <3> SUFFICES ASSUME NEW i \in 1 .. n  PROVE seqs[i] \in Seq(T)
      OBVIOUS
    <3>1. seqs[i] \in Seq(X[i])  BY <1>2 DEF Listing
    <3>2. \A p \in 1 .. Len(seqs[i]) : seqs[i][p] \in X[i]  BY <3>1
    <3>3. \A p \in 1 .. Len(seqs[i]) : seqs[i][p] \in T  BY <3>2
    <3> HIDE DEF T
    <3> QED  BY <3>1, <3>3, ElementsIn
  <2> HIDE DEF T, n
  <2>2. seqs \in [1 .. n -> Seq(T)]  BY <1>7, <2>1
  <2>3. seqs \in Seq(Seq(T))  BY <1>1, <2>2
  <2> QED  BY <1>2, <1>8, <2>3, FlattenFollowed
<1> QED  BY <1>5, <1>6, <1>9, <1>10 DEF U, D

-----------------------------------------------------------------------------
(* The names that come out. *)

(* b is an argument that naming the file names. *)
IsNamed(f, list, b) ==
  \E i \in DOMAIN content[f] : \E m \in DOMAIN content[f][i] :
    \/ \E name \in ToSet(content[f][i][m].in) :
         b = Argument(i, m, FALSE, name, KeywordSuffix(name))
    \/ \E name \in ToSet(content[f][i][m].out) :
         b = Argument(i, m, TRUE, name,
                      KeywordSuffix(name) + Cardinality(Places(list, <<runs, i, m, name>>)))

LEMMA NamedHas ==
  ASSUME NEW f, NEW list, NEW b
  PROVE  b \in Named(f, list) <=> IsNamed(f, list, b)
<1> DEFINE A(i, m) == Arguments(i, m, content[f][i][m], list)
<1>1. ASSUME NEW i, NEW m
      PROVE  b \in A(i, m) <=>
               \/ \E name \in ToSet(content[f][i][m].in) :
                    b = Argument(i, m, FALSE, name, KeywordSuffix(name))
               \/ \E name \in ToSet(content[f][i][m].out) :
                    b = Argument(i, m, TRUE, name,
                                 KeywordSuffix(name) + Cardinality(Places(list, <<runs, i, m, name>>)))
  BY DEF Arguments
<1>2. b \in Named(f, list) <=>
        \E i \in DOMAIN content[f] : \E m \in DOMAIN content[f][i] : b \in A(i, m)
  BY DEF Named
<1> HIDE DEF A
<1> QED  BY <1>1, <1>2 DEF IsNamed

EachOnce(list, U) == \A a \in U : Single(list, a)
NoOther(list, U) ==
  \A i, m, name : <<runs, i, m, name>> \notin U => Places(list, <<runs, i, m, name>>) = {}

SuffixedIn(N) ==
  \A a \in N :
    LET twins == {b \in N : b.method = a.method /\ b.name = a.name /\ a.out /\ ~b.out}
    IN  a.suffixes = KeywordSuffix(a.name) + Cardinality(twins)

(* Who has an entry is an output that has a twin, and gets one suffix. *)
LEMMA NamedOnce ==
  ASSUME NEW f, NEW T, NEW list \in Seq(T), content[f] \in Seq(Seq(Method)),
         EachOnce(list, ArgsOf(runs, content[f], FALSE)),
         NoOther(list, ArgsOf(runs, content[f], FALSE))
  PROVE  SuffixedIn(Named(f, list))
<1> SUFFICES ASSUME NEW a \in Named(f, list)
             PROVE  a.suffixes = KeywordSuffix(a.name) +
                      Cardinality({b \in Named(f, list) : /\ b.method = a.method /\ b.name = a.name
                                                         /\ a.out /\ ~b.out})
  BY DEF SuffixedIn
<1> DEFINE N == Named(f, list)
           twins == {b \in N : b.method = a.method /\ b.name = a.name /\ a.out /\ ~b.out}
<1>1. \A b : b \in N <=> IsNamed(f, list, b)  BY NamedHas
<1>2. \A i \in DOMAIN content[f] : DOMAIN content[f][i] = 1 .. Len(content[f][i])
  OBVIOUS
<1>3. DOMAIN content[f] = 1 .. Len(content[f])  OBVIOUS
<1> HIDE DEF N
<1>4. \A name : KeywordSuffix(name) \in Nat  BY DEF KeywordSuffix
<1>5. PICK i \in DOMAIN content[f] : \E m \in DOMAIN content[f][i] :
        \/ \E name \in ToSet(content[f][i][m].in) :
             a = Argument(i, m, FALSE, name, KeywordSuffix(name))
        \/ \E name \in ToSet(content[f][i][m].out) :
             a = Argument(i, m, TRUE, name,
                          KeywordSuffix(name) + Cardinality(Places(list, <<runs, i, m, name>>)))
  <2>1. a \in N  BY DEF N
  <2>2. IsNamed(f, list, a)  BY <1>1, <2>1
  <2> QED  BY <2>2 DEF IsNamed
<1>6. PICK m \in DOMAIN content[f][i] :
        \/ \E name \in ToSet(content[f][i][m].in) :
             a = Argument(i, m, FALSE, name, KeywordSuffix(name))
        \/ \E name \in ToSet(content[f][i][m].out) :
             a = Argument(i, m, TRUE, name,
                          KeywordSuffix(name) + Cardinality(Places(list, <<runs, i, m, name>>)))
  BY <1>5
<1>7. CASE \E name \in ToSet(content[f][i][m].in) :
             a = Argument(i, m, FALSE, name, KeywordSuffix(name))
  <2>1. PICK name : a = Argument(i, m, FALSE, name, KeywordSuffix(name))  BY <1>7
  <2>2. a.suffixes = KeywordSuffix(a.name) /\ ~a.out  BY <2>1 DEF Argument
  <2>3. twins = {}  BY <2>2
  <2>4. Cardinality(twins) = 0  BY <2>3, FS_EmptySet
  <2>5. KeywordSuffix(a.name) + 0 = KeywordSuffix(a.name)  BY <1>4
  <2> QED  BY <2>2, <2>4, <2>5 DEF N
<1>8. CASE \E name \in ToSet(content[f][i][m].out) :
             a = Argument(i, m, TRUE, name,
                          KeywordSuffix(name) + Cardinality(Places(list, <<runs, i, m, name>>)))
  <2>1. PICK name \in ToSet(content[f][i][m].out) :
             a = Argument(i, m, TRUE, name,
                          KeywordSuffix(name) + Cardinality(Places(list, <<runs, i, m, name>>)))
    BY <1>8
  <2>2. /\ a.suffixes = KeywordSuffix(a.name) + Cardinality(Places(list, <<runs, i, m, name>>))
        /\ a.name = name /\ a.out = TRUE /\ a.method = <<i, m>>
    BY <2>1 DEF Argument
  <2>3. ASSUME NEW b \in twins
        PROVE  /\ b = Argument(i, m, FALSE, name, KeywordSuffix(name))
               /\ name \in ToSet(content[f][i][m].in)
    <3>1. IsNamed(f, list, b) /\ b.method = <<i, m>> /\ b.name = name /\ ~b.out
      BY <1>1, <2>2
    <3>2. PICK j \in DOMAIN content[f] : \E l \in DOMAIN content[f][j] :
            \E x \in ToSet(content[f][j][l].in) : b = Argument(j, l, FALSE, x, KeywordSuffix(x))
      <4>1. PICK j \in DOMAIN content[f] : \E l \in DOMAIN content[f][j] :
              \/ \E x \in ToSet(content[f][j][l].in) :
                   b = Argument(j, l, FALSE, x, KeywordSuffix(x))
              \/ \E x, y : b = Argument(j, l, TRUE, x, y)
        BY <3>1 DEF IsNamed
      <4>2. \A l, x, y : b # Argument(j, l, TRUE, x, y)  BY <3>1 DEF Argument
      <4> QED  BY <4>1, <4>2
    <3>3. PICK l \in DOMAIN content[f][j] :
            \E x \in ToSet(content[f][j][l].in) : b = Argument(j, l, FALSE, x, KeywordSuffix(x))
      BY <3>2
    <3>4. PICK x \in ToSet(content[f][j][l].in) : b = Argument(j, l, FALSE, x, KeywordSuffix(x))
      BY <3>3
    <3>5. b.method = <<j, l>> /\ b.name = x  BY <3>4 DEF Argument
    <3>6. j = i /\ l = m /\ x = name  BY <3>1, <3>5
    <3> QED  BY <3>4, <3>6
  <2>4. CASE name \in ToSet(content[f][i][m].in)
    <3> DEFINE b == Argument(i, m, FALSE, name, KeywordSuffix(name))
    <3>1. b \in N  BY <1>1, <2>4 DEF IsNamed
    <3>2. b.method = <<i, m>> /\ b.name = name /\ ~b.out  BY DEF Argument
    <3>3. b \in twins  BY <2>2, <3>1, <3>2
    <3>4. twins = {b}  BY <2>3, <3>3
    <3>5. name \in Equals(content[f][i][m], FALSE)  BY <2>4 DEF Equals, EqualAll
    <3>6. <<runs, i, m, name>> \in ArgsOf(runs, content[f], FALSE)
      <4>1. IsArg(runs, content[f], FALSE, <<runs, i, m, name>>)  BY <1>2, <1>3, <3>5 DEF IsArg
      <4> QED  BY <4>1, ArgsOfHas
    <3>7. PICK k : Places(list, <<runs, i, m, name>>) = {k}  BY <3>6 DEF EachOnce, Single
    <3>8. Cardinality({b}) = 1 /\ Cardinality({k}) = 1  BY FS_Singleton
    <3>9. Cardinality(twins) = Cardinality(Places(list, <<runs, i, m, name>>))
      <4> HIDE DEF b, twins
      <4> QED  BY <3>4, <3>7, <3>8
    <3> QED  BY <2>2, <3>9 DEF N
  <2>5. CASE name \notin ToSet(content[f][i][m].in)
    <3>1. twins = {}  BY <2>3, <2>5
    <3>2. <<runs, i, m, name>> \notin ArgsOf(runs, content[f], FALSE)
      <4> SUFFICES ASSUME IsArg(runs, content[f], FALSE, <<runs, i, m, name>>)  PROVE FALSE
        BY ArgsOfHas
      <4>1. PICK j \in 1 .. Len(content[f]) : \E l \in 1 .. Len(content[f][j]) :
              \E x \in Equals(content[f][j][l], FALSE) : <<runs, i, m, name>> = <<runs, j, l, x>>
        BY DEF IsArg
      <4>2. name \in Equals(content[f][i][m], FALSE)  BY <4>1
      <4> QED  BY <2>5, <4>2 DEF Equals, EqualAll
    <3>3. Places(list, <<runs, i, m, name>>) = {}  BY <3>2 DEF NoOther
    <3> QED  BY <2>2, <3>1, <3>3 DEF N
  <2> QED  BY <2>4, <2>5
<1> QED  BY <1>6, <1>7, <1>8

-----------------------------------------------------------------------------
(* What an earlier call may have left in the list. *)

(* The arguments of the first n - 1 calls. *)
Earlier(n) == {a \in Nat \X Nat \X Nat \X STRING : a[1] < n}

(* What is in the list was left by an earlier call. *)
ListInv ==
  /\ content \in Contents /\ runs \in Nat
  /\ listOfOutArguments \in Seq(EntryOver(Earlier(IF phase = "loading" THEN runs ELSE runs + 1)))

LEMMA ArgsOfRun ==
  ASSUME NEW interfaces \in Seq(Seq(Method)), NEW r \in Nat
  PROVE  /\ ArgsOf(r, interfaces, FALSE) \subseteq Earlier(r + 1)
         /\ ArgsOf(r, interfaces, FALSE) \cap Earlier(r) = {}
         /\ ArgsOf(r, interfaces, TRUE) \subseteq ArgsOf(r, interfaces, FALSE)
<1>1. ASSUME NEW a \in ArgsOf(r, interfaces, FALSE)  PROVE a \in Earlier(r + 1) /\ a[1] = r
  <2>1. IsArg(r, interfaces, FALSE, a)  BY <1>1, ArgsOfHas
  <2>2. PICK i \in 1 .. Len(interfaces) : \E m \in 1 .. Len(interfaces[i]) :
          \E name \in Equals(interfaces[i][m], FALSE) : a = <<r, i, m, name>>
    BY <2>1 DEF IsArg
  <2>3. PICK m \in 1 .. Len(interfaces[i]) :
          \E name \in Equals(interfaces[i][m], FALSE) : a = <<r, i, m, name>>
    BY <2>2
  <2>4. PICK name \in Equals(interfaces[i][m], FALSE) : a = <<r, i, m, name>>
    BY <2>3
  <2>5. name \in STRING
    <3>1. interfaces[i] \in Seq(Method)  OBVIOUS
    <3>2. interfaces[i][m] \in Method  BY <3>1
    <3>3. interfaces[i][m].out \in Seq(STRING)  BY <3>2 DEF Method
    <3>4. \A s \in Seq(STRING) : ToSet(s) \subseteq STRING  BY DEF ToSet
    <3> QED  BY <2>4, <3>3, <3>4 DEF Equals, EqualAll
  <2>6. i \in Nat /\ m \in Nat /\ r < r + 1
    <3>1. Len(interfaces) \in Nat /\ interfaces[i] \in Seq(Method)  OBVIOUS
    <3> QED  BY <3>1
  <2> HIDE DEF Earlier
  <2>7. a \in Nat \X Nat \X Nat \X STRING /\ a[1] = r  BY <2>4, <2>5, <2>6
  <2> QED  BY <2>6, <2>7 DEF Earlier
<1>2. ArgsOf(r, interfaces, FALSE) \cap Earlier(r) = {}
  <2>1. \A a \in Earlier(r) : a[1] < r  BY DEF Earlier
  <2>2. ~(r < r)  OBVIOUS
  <2> HIDE DEF Earlier
  <2> QED  BY <1>1, <2>1, <2>2
<1>3. ASSUME NEW a \in ArgsOf(r, interfaces, TRUE)  PROVE a \in ArgsOf(r, interfaces, FALSE)
  <2>1. IsArg(r, interfaces, TRUE, a)  BY <1>3, ArgsOfHas
  <2>2. \A method : Equals(method, TRUE) \subseteq Equals(method, FALSE)
    BY DEF Equals, EqualDeployed
  <2>3. IsArg(r, interfaces, FALSE, a)  BY <2>1, <2>2 DEF IsArg
  <2> QED  BY <2>3, ArgsOfHas
<1> QED  BY <1>1, <1>2, <1>3

LEMMA EarlierGrows ==
  ASSUME NEW r \in Nat
  PROVE  Earlier(r) \subseteq Earlier(r + 1)
BY DEF Earlier

(* The list before the loop over it, in the call of a file that is named. *)
LEMMA ListedIs ==
  ASSUME ListInv, phase = "loading", Top(stack).file \in Readable
  PROVE  LET f == Top(stack).file
             U == ArgsOf(runs, content[f], FALSE)
         IN  /\ content[f] \in Seq(Seq(Method))
             /\ Listed \in Seq(EntryOver(Earlier(runs) \cup U))
             /\ Listed \in Seq(EntryOver(Earlier(runs + 1)))
             /\ \E n : Ends(Listed, n, U, DeployedArgs(runs, f, content[f]))
<1> DEFINE f == Top(stack).file
           U == ArgsOf(runs, content[f], FALSE)
           D == DeployedArgs(runs, f, content[f])
           A == Earlier(runs) \cup U
           old == listOfOutArguments
           t == Collected(runs, f, content[f])
<1>1. content[f] \in Seq(Seq(Method)) /\ runs \in Nat
  BY ContentsAssumption DEF ListInv
<1>2. U \subseteq Earlier(runs + 1) /\ U \cap Earlier(runs) = {} /\ D \subseteq U
  BY <1>1, ArgsOfRun DEF DeployedArgs
<1>3. Listing(t, EntriesOf(U, D)) /\ Followed(t)  BY <1>1, CollectedListing
<1>4. old \in Seq(EntryOver(Earlier(runs)))  BY DEF ListInv
<1>5. Earlier(runs) = A \ U  BY <1>2
<1>6. Listed = old \o t  BY DEF Listed
<1>7. A \subseteq Earlier(runs + 1)  BY <1>1, <1>2, EarlierGrows
<1> HIDE DEF f, U, D, A, old, t
<1>8. U \in SUBSET A /\ D \in SUBSET U  BY <1>2 DEF A
<1>9. Listed \in Seq(EntryOver(A)) /\ Ends(Listed, Len(old), U, D)
  BY <1>3, <1>4, <1>5, <1>6, <1>8, ConcatEnds
<1>10. EntryOver(A) \subseteq EntryOver(Earlier(runs + 1))  BY <1>7 DEF EntryOver
<1>11. Listed \in Seq(EntryOver(Earlier(runs + 1)))
  <2>1. \A p \in 1 .. Len(Listed) : Listed[p] \in EntryOver(Earlier(runs + 1))  BY <1>9, <1>10
  <2> QED  BY <1>9, <2>1, ElementsIn
<1> QED  BY <1>1, <1>9, <1>11 DEF f, U, D, A

(* What the loop leaves of it has each argument once. *)
LEMMA NamedIs ==
  ASSUME ListInv, phase = "loading", Top(stack).file \in Readable,
         NEW list, \/ Top(stack).file \in Fidl /\ list = Listed
                   \/ ~PruneThrows(Listed) /\ list = Pruned(Listed)
  PROVE  SuffixedIn(Named(Top(stack).file, list))
<1> DEFINE f == Top(stack).file
           U == ArgsOf(runs, content[f], FALSE)
           D == DeployedArgs(runs, f, content[f])
           A == Earlier(runs) \cup U
<1>1. content[f] \in Seq(Seq(Method)) /\ Listed \in Seq(EntryOver(A))  BY ListedIs
<1>2. PICK n : Ends(Listed, n, U, D)  BY ListedIs
<1>3. \A i, m, name : <<runs, i, m, name>> \notin Earlier(runs)
  BY DEF Earlier, ListInv
<1> HIDE DEF U, D
<1>4. ASSUME NEW i, NEW m, NEW name, <<runs, i, m, name>> \notin U
      PROVE  <<runs, i, m, name>> \notin A
  BY <1>3, <1>4
<1> HIDE DEF A
<1>5. list \in Seq(EntryOver(A))  BY <1>1, PrunedIn
<1>6. NoOther(list, U)
  <2> SUFFICES ASSUME NEW i, NEW m, NEW name, <<runs, i, m, name>> \notin U
               PROVE  Places(list, <<runs, i, m, name>>) = {}
    BY DEF NoOther
  <2> DEFINE a == <<runs, i, m, name>>
  <2>1. a \notin A  BY <1>4
  <2> HIDE DEF a
  <2>2. Places(list, a) = {}  BY <1>5, <2>1, NoPlaces
  <2> QED  BY <2>2 DEF a
<1>7. EachOnce(list, U)
  <2> SUFFICES ASSUME NEW a \in U  PROVE Single(list, a)
    BY DEF EachOnce
  <2>1. CASE f \in Fidl /\ list = Listed
    <3>1. D = {}  BY <2>1 DEF D, DeployedArgs
    <3> QED  BY <1>1, <1>2, <2>1, <3>1, OnceAlone
  <2>2. CASE ~PruneThrows(Listed) /\ list = Pruned(Listed)
    BY <1>1, <1>2, <2>2, OncePruned
  <2> QED  BY <2>1, <2>2
<1> QED  BY <1>1, <1>5, <1>6, <1>7, NamedOnce DEF U

LEMMA EntriesMono ==
  ASSUME NEW A, NEW B, A \subseteq B, NEW list \in Seq(EntryOver(A))
  PROVE  list \in Seq(EntryOver(B))
<1>1. \A p \in 1 .. Len(list) : list[p] \in EntryOver(A)  OBVIOUS
<1>2. \A p \in 1 .. Len(list) : list[p] \in EntryOver(B)  BY <1>1 DEF EntryOver
<1> QED  BY <1>2, ElementsIn

(* A step that names nothing. *)
LEMMA SuffixedNone ==
  ASSUME named' = {}
  PROVE  SuffixedOnce'
BY DEF SuffixedOnce

(* A step that leaves the list alone and is not the start of a call. *)
LEMMA ListKept ==
  ASSUME ListInv, UNCHANGED <<content, listOfOutArguments, runs>>,
         phase' = "loading" => phase = "loading"
  PROVE  ListInv'
<1>1. CASE phase = "loading" /\ phase' # "loading"
  <2>1. Earlier(runs) \subseteq Earlier(runs + 1)  BY EarlierGrows DEF ListInv
  <2>2. listOfOutArguments \in Seq(EntryOver(Earlier(runs + 1)))
    BY <1>1, <2>1, EntriesMono DEF ListInv
  <2> QED  BY <1>1, <2>2 DEF ListInv
<1>2. CASE ~(phase = "loading" /\ phase' # "loading")
  BY <1>2 DEF ListInv
<1> QED  BY <1>1, <1>2

LEMMA SuffixedStep ==
  ASSUME ListInv, SuffixedOnce, [NamesNext]_<<vars, nameVars>>
  PROVE  ListInv' /\ SuffixedOnce'
<1>1. CASE \E r \in Files : Start(r) /\ NamesNothing
  <2>1. phase = "idle" /\ runs' = runs + 1 /\ named' = {}
        /\ UNCHANGED <<content, listOfOutArguments>>
    BY <1>1 DEF Start, NamesNothing
  <2>2. runs + 1 \in Nat /\ listOfOutArguments \in Seq(EntryOver(Earlier(runs + 1)))
    BY <2>1 DEF ListInv
  <2>3. Earlier(runs + 1) \subseteq Earlier(runs + 1 + 1)  BY <2>2, EarlierGrows
  <2>4. listOfOutArguments \in Seq(EntryOver(Earlier(runs + 1 + 1)))
    BY <2>2, <2>3, EntriesMono
  <2>5. ListInv'  BY <2>1, <2>2, <2>4 DEF ListInv
  <2> QED  BY <2>1, <2>5, SuffixedNone
<1>2. CASE (SkipImport \/ ImportNothing \/ ImportModel \/ Overflow \/ ImportThrows) /\ NamesNothing
  <2>1. phase = "loading" /\ UNCHANGED <<content, listOfOutArguments, runs>> /\ named' = {}
    BY <1>2
    DEF SkipImport, ImportNothing, ImportModel, Overflow, ImportThrows, HasImport, NamesNothing
  <2> QED  BY <2>1, ListKept, SuffixedNone
<1>3. CASE Generate /\ NamesNothing
  <2>1. phase' # "loading" /\ UNCHANGED <<content, listOfOutArguments, runs>> /\ named' = {}
    BY <1>3 DEF Generate, NamesNothing
  <2> QED  BY <2>1, ListKept, SuffixedNone
<1>4. CASE ReturnNamed
  <2>1. phase = "loading" /\ UNCHANGED <<content, runs>>  BY <1>4 DEF ReturnNamed, Return
  <2>2. CASE Names(Top(stack).file)
    <3>1. Top(stack).file \in Readable  BY <2>2 DEF Names, Readable
    <3>2. PICK list : /\ \/ Top(stack).file \in Fidl /\ list = Listed
                         \/ ~PruneThrows(Listed) /\ list = Pruned(Listed)
                      /\ named' = Named(Top(stack).file, list)
      BY <1>4, <2>2 DEF ReturnNamed
    <3>3. SuffixedIn(named')  BY <2>1, <3>1, <3>2, NamedIs
    <3>4. SuffixedOnce'  BY <3>3 DEF SuffixedOnce, SuffixedIn
    <3>5. listOfOutArguments' = <<>>  BY <1>4, <2>2 DEF ReturnNamed
    <3>6. ListInv'  BY <2>1, <3>5 DEF ListInv
    <3> QED  BY <3>4, <3>6
  <2>3. CASE ~Names(Top(stack).file)
    <3>1. named' = {} /\ UNCHANGED listOfOutArguments  BY <1>4, <2>3 DEF ReturnNamed
    <3> QED  BY <2>1, <3>1, ListKept, SuffixedNone
  <2> QED  BY <2>2, <2>3
<1>5. CASE NamingThrowsNamed
  <2>1. phase = "loading" /\ phase' = "idle" /\ UNCHANGED <<content, runs>> /\ named' = {}
    BY <1>5 DEF NamingThrowsNamed, NamingThrows, Throw
  <2>2. Top(stack).file \in Readable
    BY <1>5, ImportGraphAssumption DEF NamingThrowsNamed, NamingThrows, Readable
  <2>3. listOfOutArguments' = Pruned(Listed)  BY <1>5 DEF NamingThrowsNamed
  <2>4. Listed \in Seq(EntryOver(Earlier(runs + 1)))  BY <2>1, <2>2, ListedIs
  <2>5. Pruned(Listed) \in Seq(EntryOver(Earlier(runs + 1)))  BY <2>4, PrunedIn
  <2>6. ListInv'  BY <2>1, <2>3, <2>5 DEF ListInv
  <2> QED  BY <2>1, <2>6, SuffixedNone
<1>6. CASE UNCHANGED <<vars, nameVars>>
  BY <1>6 DEF vars, maps, nameVars, ListInv, SuffixedOnce
<1> QED  BY <1>1, <1>2, <1>3, <1>4, <1>5, <1>6 DEF NamesNext, LoadNames

(* Whatever an earlier call has left in the list, whatever is deployed and    *)
(* however many methods and interfaces a file has: an output that shares its *)
(* name with an input gets one suffix for it, and nothing else gets any.     *)
THEOREM NamesSuffixedOnce == NamesSpec => []SuffixedOnce
<1>1. NamesInit => ListInv /\ SuffixedOnce
  BY DEF NamesInit, FragileContents, Init, ListInv, SuffixedOnce
<1>2. ListInv /\ SuffixedOnce /\ [NamesNext]_<<vars, nameVars>> => (ListInv /\ SuffixedOnce)'
  BY SuffixedStep
<1> QED  BY <1>1, <1>2, PTL DEF NamesSpec
=============================================================================
