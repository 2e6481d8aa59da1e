------------------------ MODULE StandaloneLoaderProofs ------------------------
(* Proofs about StandaloneLoader, for every import graph.                    *)
EXTENDS StandaloneLoader, LoadStackProofs, FiniteSetTheorems

USE ImportGraphAssumption, StandaloneLoaderAssumption

Inv == TypeOK /\ graph \in ImportGraphs /\ StandaloneInv

(* Type correctness. *)
LEMMA InitType == Init => TypeOK
<1> SUFFICES ASSUME Init  PROVE TypeOK
  OBVIOUS
<1>1. graph \in [Files -> Seq(Files)]  BY DEF Init
<1>2. invalid \subseteq Files  BY DEF Init
<1>3. stack \in Seq(Frames)  BY DEF Init
<1> QED  BY <1>1, <1>2, <1>3 DEF Init, TypeOK

LEMMA NextType == TypeOK /\ [Next]_vars => TypeOK'
<1> SUFFICES ASSUME TypeOK, [Next]_vars  PROVE TypeOK'
  OBVIOUS
<1> USE DEF TypeOK, judging
<1>0. ASSUME NEW f \in Files, NEW s \in Seq(Frames), LoadModel(f, s)
      PROVE  /\ importsLoadedList' \subseteq Files /\ resources' \subseteq Files
             /\ errors' \subseteq Missing /\ stack' \in Seq(Frames)
  <2>1. f \in Readable => Append(s, Frame(f)) \in Seq(Frames)  BY PushStack
  <2> QED  BY <1>0, <2>1 DEF LoadModel, Reported
<1>1. ASSUME NEW r \in Files, Start(r)  PROVE TypeOK'
  <2>1. CASE r \in Fidl  BY <1>1, <2>1 DEF Start
  <2>2. CASE r \notin Fidl
    <3>1. LoadModel(r, stack)  BY <1>1, <2>2 DEF Start
    <3> QED  BY <1>0, <1>1, <2>2, <3>1 DEF Start
  <2> QED  BY <2>1, <2>2
<1>2. CASE SkipImport
  BY <1>2, AdvanceStack DEF SkipImport, HasImport, HasNext
<1>3. CASE LoadImport
  <2>1. NextImport \in Files  BY <1>3, ImportAtFile DEF LoadImport, HasImport, NextImport
  <2>2. Advance(stack) \in Seq(Frames)
    BY <1>3, AdvanceStack DEF LoadImport, HasImport, HasNext
  <2> QED  BY <1>0, <1>3, <2>1, <2>2 DEF LoadImport
<1>4. CASE Return
  BY <1>4, PopStack DEF Return
<1>5. CASE Loaded  BY <1>5 DEF Loaded
<1>6. ASSUME NEW f \in Files, Validate(f)  PROVE TypeOK'
  BY <1>6 DEF Validate
<1>7. CASE Judge  BY <1>7 DEF Judge
<1>8. CASE UNCHANGED vars  BY <1>8 DEF vars
<1> QED  BY <1>1, <1>2, <1>3, <1>4, <1>5, <1>6, <1>7, <1>8 DEF Next, Step

(* Every state the validator reaches is well typed. *)
THEOREM StandaloneType == Spec => []TypeOK
BY InitType, NextType, PTL DEF Spec

-----------------------------------------------------------------------------
(* The invariant of the search. *)
LEMMA InitInv == Init => StandaloneInv
<1> SUFFICES ASSUME Init  PROVE StandaloneInv
  OBVIOUS
<1>1. Len(stack) = 0 /\ OnStack = {}  BY DEF Init, OnStack, FilesOf
<1>2. SearchInv  BY <1>1 DEF Init, SearchInv, DoneIn
<1>3. validated \cap invalid = {} /\ hasValidationError = FALSE  BY DEF Init
<1>4. JudgeInv  BY <1>3 DEF Init, JudgeInv
<1> QED  BY <1>2, <1>4 DEF StandaloneInv

(* Calling loadModel() on a needed file keeps the invariant of the search:   *)
(* the file joins the list together with a call of its own, or it has no     *)
(* imports.  s is the stack of the callers.                                  *)
LEMMA LoadModelInv ==
  ASSUME Inv, NEW f \in Needed(graph, root'), NEW s \in Seq(Frames), LoadModel(f, s),
         root' \in Files, graph' = graph,
         importsLoadedList \subseteq Needed(graph, root'),
         DoneIn(graph, s, importsLoadedList \cup {f}), FilesOf(s) = OnStack,
         root' \in importsLoadedList \cup {f}
  PROVE  SearchInv'
<1> DEFINE L == importsLoadedList \cup {f}
<1>1. f \in Files /\ graph \in [Files -> Seq(Files)] /\ graph \in ImportGraphs
  BY DEF Needed, Inv, TypeOK
<1>2. importsLoadedList' = L  BY DEF LoadModel
<1>3. OnStack \subseteq importsLoadedList
      /\ \A h \in importsLoadedList \ OnStack : Imported(graph, h) \subseteq importsLoadedList
  BY DEF Inv, StandaloneInv, SearchInv
<1>4. CASE f \in Readable
  <2>1. stack' = Append(s, Frame(f))  BY <1>4 DEF LoadModel
  <2>2. OnStack' = OnStack \cup {f}  BY <1>4, <2>1, PushStack DEF OnStack
  <2>3. DoneIn(graph, stack', L)  BY <1>1, <1>4, <2>1, PushDone
  <2>4. \A h \in L \ OnStack' : Imported(graph, h) \subseteq L  BY <1>3, <2>2
  <2> QED  BY <1>2, <1>3, <2>2, <2>3, <2>4 DEF SearchInv
<1>5. CASE f \notin Readable
  <2>1. stack' = s /\ OnStack' = OnStack  BY <1>5 DEF LoadModel, OnStack
  <2>2. Imported(graph, f) = {}
    BY <1>1, <1>5, UnreadableLeaf DEF Readable, Files
  <2>3. \A h \in L \ OnStack' : Imported(graph, h) \subseteq L  BY <1>3, <2>1, <2>2
  <2> QED  BY <1>2, <1>3, <2>1, <2>3 DEF SearchInv
<1> QED  BY <1>4, <1>5

LEMMA NextInv == Inv /\ TypeOK' /\ [Next]_vars => Inv'
<1> SUFFICES ASSUME Inv, TypeOK', [Next]_vars  PROVE Inv'
  OBVIOUS
<1> USE DEF judging
<1>a. TypeOK /\ SearchInv /\ JudgeInv /\ graph \in ImportGraphs
  BY DEF Inv, StandaloneInv
<1>b. graph \in [Files -> Seq(Files)] /\ stack \in Seq(Frames)  BY <1>a DEF TypeOK
<1>1. ASSUME NEW r \in Files, Start(r)  PROVE Inv'
  <2>1. phase = "start" /\ stack = <<>> /\ importsLoadedList = {} /\ verdict = "none"
        /\ resources = {} /\ errors = {} /\ validated = {} /\ hasValidationError = FALSE
    BY <1>1, <1>a DEF Start, JudgeInv
  <2>2. CASE r \in Fidl
    <3>1. OnStack' = {} /\ DoneIn(graph, stack, {})
      BY <2>1, <1>1, <2>2 DEF Start, OnStack, FilesOf, DoneIn
    <3>2. SearchInv'  BY <3>1, <2>1, <2>2, <1>1 DEF Start, SearchInv
    <3>3. JudgeInv'  BY <2>1, <2>2, <1>1 DEF Start, JudgeInv
    <3> QED  BY <3>2, <3>3, <1>1, <1>a DEF Start, Inv, StandaloneInv
  <2>3. CASE r \notin Fidl
    <3>1. LoadModel(r, stack) /\ root' = r /\ graph' = graph /\ phase' = "loading"
      BY <1>1, <2>3 DEF Start
    <3>2. FilesOf(stack) = {} /\ DoneIn(graph, stack, {r})
      BY <2>1 DEF FilesOf, DoneIn
    <3>3. SearchInv'
      <4>1. r \in Needed(graph, root') /\ root' \in Files  BY <3>1, NeededRoot
      <4>2. importsLoadedList \cup {r} = {r} /\ importsLoadedList \subseteq Needed(graph, root')
        BY <2>1
      <4>3. FilesOf(stack) = OnStack  BY DEF OnStack
      <4>4. DoneIn(graph, stack, importsLoadedList \cup {r})  BY <3>2, <4>2
      <4>5. root' \in importsLoadedList \cup {r}  BY <3>1
      <4> QED  BY <1>b, <3>1, <4>1, <4>2, <4>3, <4>4, <4>5, LoadModelInv
    <3>4. JudgeInv'
      BY <2>1, <2>3, <1>1, <3>1 DEF Start, LoadModel, Reported, JudgeInv
    <3> QED  BY <3>1, <3>3, <3>4, <1>a DEF Inv, StandaloneInv
  <2> QED  BY <2>2, <2>3
<1>2. CASE SkipImport
  <2>1. stack # <<>> /\ HasNext(graph, stack) /\ ImportAt(graph, stack) \in importsLoadedList
    BY <1>2 DEF SkipImport, HasImport, HasNext, NextImport
  <2>2. OnStack' = OnStack  BY <1>2, <1>b, <2>1, AdvanceStack DEF SkipImport, OnStack
  <2>3. DoneIn(graph, Advance(stack), importsLoadedList)
    BY <1>a, <1>b, <2>1, AdvanceDone DEF SearchInv
  <2>4. SearchInv'  BY <1>2, <1>a, <2>2, <2>3 DEF SkipImport, SearchInv
  <2>5. JudgeInv'  BY <1>2, <1>a, <2>1 DEF SkipImport, JudgeInv
  <2> QED  BY <2>4, <2>5, <1>2, <1>a DEF SkipImport, Inv, StandaloneInv
<1>3. CASE LoadImport
  <2> DEFINE f == ImportAt(graph, stack)
  <2>1. stack # <<>> /\ HasNext(graph, stack) /\ f \notin importsLoadedList
        /\ LoadModel(f, Advance(stack)) /\ graph' = graph /\ root' = root /\ phase' = phase
    BY <1>3 DEF LoadImport, HasImport, HasNext, NextImport
  <2>2. phase = "loading" /\ root \in importsLoadedList /\ root \in Files
    BY <1>a, <2>1 DEF JudgeInv, SearchInv
  <2>3. Top(stack).file \in OnStack  BY <1>b, <2>1, TopFrame DEF OnStack
  <2>4. f \in Needed(graph, root)
    BY <1>a, <1>b, <2>1, <2>2, <2>3, ImportAtFile, NeededClosed DEF SearchInv
  <2>5. Advance(stack) \in Seq(Frames) /\ FilesOf(Advance(stack)) = OnStack
    BY <1>b, <2>1, AdvanceStack DEF OnStack
  <2>6. DoneIn(graph, Advance(stack), importsLoadedList \cup {f})
    BY <1>a, <1>b, <2>1, AdvanceDone DEF SearchInv
  <2>7. SearchInv'
    <3> DEFINE s == Advance(stack)
    <3>1. /\ f \in Needed(graph, root') /\ s \in Seq(Frames) /\ LoadModel(f, s)
          /\ root' \in Files /\ graph' = graph /\ FilesOf(s) = OnStack
          /\ DoneIn(graph, s, importsLoadedList \cup {f})
          /\ root' \in importsLoadedList \cup {f}
      BY <2>1, <2>2, <2>4, <2>5, <2>6
    <3>2. importsLoadedList \subseteq Needed(graph, root')
      BY <1>a, <2>1 DEF SearchInv
    <3> HIDE DEF f, s
    <3> QED  BY <3>1, <3>2, LoadModelInv
  <2>8. JudgeInv'
    <3>1. /\ importsLoadedList' = importsLoadedList \cup {f} /\ resources' = resources \cup {f}
          /\ errors' = errors \cup ({f} \cap (Missing \ IgnoredSpecs))
      BY <2>1 DEF LoadModel, Reported
    <3>2. /\ UNCHANGED <<invalid, validated, hasValidationError, verdict>>
          /\ validated = {} /\ verdict = "none" /\ phase = "loading" /\ root \in Files
      BY <1>a, <1>3, <2>2 DEF LoadImport, JudgeInv, judging
    <3>3. /\ resources' = importsLoadedList'
          /\ errors' = importsLoadedList' \cap (Missing \ IgnoredSpecs)
      BY <1>a, <3>1 DEF JudgeInv
    <3> QED  BY <1>a, <2>1, <3>2, <3>3 DEF JudgeInv
  <2> QED  BY <2>7, <2>8, <2>1, <1>a DEF Inv, StandaloneInv
<1>4. CASE Return
  <2>1. stack # <<>> /\ ~HasNext(graph, stack) /\ stack' = Pop(stack)
    BY <1>4 DEF Return, HasImport
  <2>2. Imported(graph, Top(stack).file) \subseteq importsLoadedList
    BY <1>a, <1>b, <2>1, DoneIsAll DEF SearchInv
  <2>3. OnStack = OnStack' \cup {Top(stack).file}  BY <1>b, <2>1, PopStack DEF OnStack
  <2>4. DoneIn(graph, Pop(stack), importsLoadedList)
    BY <1>a, <1>b, <2>1, PopDone DEF SearchInv
  <2>5. SearchInv'  BY <1>4, <1>a, <2>1, <2>2, <2>3, <2>4 DEF Return, SearchInv
  <2>6. JudgeInv'  BY <1>4, <1>a, <2>1 DEF Return, JudgeInv
  <2> QED  BY <2>5, <2>6, <1>4, <1>a DEF Return, Inv, StandaloneInv
<1>5. CASE Loaded
  <2>1. OnStack' = OnStack  BY <1>5 DEF Loaded, OnStack
  <2>2. SearchInv'  BY <1>5, <1>a, <2>1 DEF Loaded, SearchInv
  <2>3. JudgeInv'  BY <1>5, <1>a DEF Loaded, JudgeInv
  <2> QED  BY <2>2, <2>3, <1>5, <1>a DEF Loaded, Inv, StandaloneInv
<1>6. ASSUME NEW f \in Files, Validate(f)  PROVE Inv'
  <2>1. OnStack' = OnStack  BY <1>6 DEF Validate, OnStack
  <2>2. SearchInv'  BY <1>6, <1>a, <2>1 DEF Validate, SearchInv
  <2>3. hasValidationError' = (validated' \cap invalid # {})
    <3>1. hasValidationError = (validated \cap invalid # {})  BY <1>a DEF JudgeInv
    <3>2. hasValidationError' = (hasValidationError \/ f \in invalid)
          /\ validated' = validated \cup {f}
      BY <1>6 DEF Validate
    <3>3. (validated \cup {f}) \cap invalid # {} <=> validated \cap invalid # {} \/ f \in invalid
      OBVIOUS
    <3> QED  BY <3>1, <3>2, <3>3
  <2>4. JudgeInv'  BY <1>6, <1>a, <2>3 DEF Validate, JudgeInv
  <2> QED  BY <2>2, <2>4, <1>6, <1>a DEF Validate, Inv, StandaloneInv
<1>7. CASE Judge
  <2>1. OnStack' = OnStack  BY <1>7 DEF Judge, OnStack
  <2>2. SearchInv'  BY <1>7, <1>a, <2>1 DEF Judge, SearchInv
  <2>3. JudgeInv'  BY <1>7, <1>a DEF Judge, JudgeInv, SearchInv
  <2> QED  BY <2>2, <2>3, <1>7, <1>a DEF Judge, Inv, StandaloneInv
<1>8. CASE UNCHANGED vars
  <2>1. OnStack' = OnStack  BY <1>8 DEF vars, OnStack
  <2>2. SearchInv'  BY <1>8, <1>a, <2>1 DEF vars, SearchInv
  <2>3. JudgeInv'  BY <1>8, <1>a DEF vars, JudgeInv
  <2> QED  BY <2>2, <2>3, <1>8, <1>a DEF vars, Inv, StandaloneInv
<1> QED  BY <1>1, <1>2, <1>3, <1>4, <1>5, <1>6, <1>7, <1>8 DEF Next, Step

(* Every state keeps what the search and the judging rely on. *)
THEOREM StandaloneInvariant == Spec => []StandaloneInv
<1>1. Init => Inv  BY InitType, InitInv DEF Inv, Init
<1>2. Inv /\ [Next]_vars => Inv'
  BY NextType, NextInv DEF Inv
<1>3. Inv => StandaloneInv  BY DEF Inv
<1> QED  BY <1>1, <1>2, <1>3, PTL DEF Spec

(* When the search is over, the list holds exactly what the root needs. *)
LEMMA SearchIsComplete ==
  ASSUME Inv, stack = <<>>, root \in importsLoadedList
  PROVE  importsLoadedList = Needed(graph, root)
<1>1. importsLoadedList \subseteq Needed(graph, root) /\ importsLoadedList \in SUBSET Files
      /\ root \in Files
  BY DEF Inv, TypeOK, StandaloneInv, SearchInv
<1>2. OnStack = {}  BY DEF OnStack, FilesOf
<1>3. Closed(graph, importsLoadedList)
  BY <1>2 DEF Inv, StandaloneInv, SearchInv, Closed
<1> QED  BY <1>1, <1>3, NeededLeast

(* An accepted deployment has every file it needs, and no validator objects  *)
(* to any of them; a rejected one does need a missing or invalid file.       *)
THEOREM StandaloneVerdict == Spec => []VerdictIsRight
<1>1. Init => Inv  BY InitType, InitInv DEF Inv, Init
<1>2. Inv /\ [Next]_vars => Inv'
  BY NextType, NextInv DEF Inv
<1>3. Inv => VerdictIsRight
  <2> SUFFICES ASSUME Inv  PROVE VerdictIsRight
    OBVIOUS
  <2>1. JudgeInv /\ SearchInv  BY DEF Inv, StandaloneInv
  <2>2. ASSUME verdict = "accepted", root \notin Fidl
        PROVE  Needed(graph, root) \cap (invalid \cup (Missing \ IgnoredSpecs)) = {}
    <3>1. errors = {} /\ validated = resources /\ ~hasValidationError /\ root \in resources
          /\ resources = importsLoadedList
          /\ errors = importsLoadedList \cap (Missing \ IgnoredSpecs)
      BY <2>1, <2>2 DEF JudgeInv
    <3>2. stack = <<>>  BY <2>1, <2>2 DEF JudgeInv
    <3>3. importsLoadedList = Needed(graph, root)  BY <3>1, <3>2, SearchIsComplete
    <3>4. validated \cap invalid = {}  BY <2>1, <3>1 DEF JudgeInv
    <3> QED  BY <3>1, <3>3, <3>4
  <2>3. ASSUME verdict = "rejected"
        PROVE  Needed(graph, root) \cap (invalid \cup (Missing \ IgnoredSpecs)) # {}
    <3>1. errors # {} \/ hasValidationError  BY <2>1, <2>3 DEF JudgeInv
    <3>2. errors \cup validated \subseteq Needed(graph, root)
          /\ errors \subseteq Missing \ IgnoredSpecs
      BY <2>1 DEF JudgeInv, SearchInv
    <3>3. hasValidationError => validated \cap invalid # {}  BY <2>1 DEF JudgeInv
    <3> QED  BY <3>1, <3>2, <3>3
  <2> QED  BY <2>2, <2>3 DEF VerdictIsRight
<1> QED  BY <1>1, <1>2, <1>3, PTL DEF Spec

(* No file is loaded while it is being loaded, whatever the cycles. *)
THEOREM StandaloneNoReentry == Spec => []NoReentry
<1>1. Init => Inv /\ NoReentry
  BY InitType, InitInv DEF Inv, Init, NoReentry
<1>2. Inv /\ NoReentry /\ [Next]_vars => (Inv /\ NoReentry)'
  <2> SUFFICES ASSUME Inv, NoReentry, [Next]_vars  PROVE NoReentry'
    BY NextType, NextInv DEF Inv
  <2>a. stack \in Seq(Frames) /\ FilesOf(stack) \subseteq importsLoadedList
    BY DEF Inv, TypeOK, StandaloneInv, SearchInv, OnStack
  <2>0. ASSUME NEW f \in Files, f \notin importsLoadedList, NEW s \in Seq(Frames),
               LoadModel(f, s), Len(s) = Len(stack),
               \A i \in 1 .. Len(stack) : s[i].file = stack[i].file
        PROVE  NoReentry'
    <3>1. CASE f \notin Readable
      <4>1. stack' = s  BY <2>0, <3>1 DEF LoadModel
      <4> QED  BY <4>1, <2>0 DEF NoReentry
    <3>2. CASE f \in Readable
      <4>1. stack' = Append(s, Frame(f))  BY <2>0, <3>2 DEF LoadModel
      <4>2. Len(stack') = Len(stack) + 1 /\ Len(stack) \in Nat
            /\ stack'[Len(stack) + 1].file = f
            /\ \A i \in 1 .. Len(stack) : stack'[i].file = stack[i].file
        BY <2>0, <2>a, <3>2, <4>1, PushStack DEF Frame
      <4>3. \A i \in 1 .. Len(stack) : stack[i].file # f
        BY <2>0, <2>a DEF FilesOf
      <4>4. \A i \in 1 .. Len(stack') : i \in 1 .. Len(stack) \/ i = Len(stack) + 1
        BY <4>2
      <4> QED  BY <4>2, <4>3, <4>4 DEF NoReentry
    <3> QED  BY <3>1, <3>2
  <2>1. ASSUME NEW r \in Files, Start(r)  PROVE NoReentry'
    <3>1. stack = <<>> /\ importsLoadedList = {}
      BY <2>1 DEF Inv, StandaloneInv, JudgeInv, Start
    <3>2. CASE r \in Fidl  BY <2>1, <3>1, <3>2 DEF Start, NoReentry
    <3>3. CASE r \notin Fidl
      <4>1. LoadModel(r, stack)  BY <2>1, <3>3 DEF Start
      <4> QED  BY <2>0, <2>a, <3>1, <4>1
    <3> QED  BY <3>2, <3>3
  <2>2. CASE SkipImport
    <3>1. stack # <<>> /\ stack' = Advance(stack)
      BY <2>2 DEF SkipImport, HasImport, HasNext
    <3>2. Len(stack') = Len(stack) /\ \A i \in 1 .. Len(stack) : stack'[i].file = stack[i].file
      BY <2>a, <3>1, AdvanceStack
    <3> QED  BY <3>2 DEF NoReentry
  <2>3. CASE LoadImport
    <3>1. stack # <<>> /\ HasNext(graph, stack) /\ NextImport \notin importsLoadedList
          /\ LoadModel(NextImport, Advance(stack))
      BY <2>3 DEF LoadImport, HasImport, HasNext
    <3>2. graph \in [Files -> Seq(Files)]  BY DEF Inv, TypeOK
    <3>3. NextImport \in Files  BY <2>a, <3>1, <3>2, ImportAtFile DEF NextImport
    <3>4. Advance(stack) \in Seq(Frames) /\ Len(Advance(stack)) = Len(stack)
          /\ \A i \in 1 .. Len(stack) : Advance(stack)[i].file = stack[i].file
      BY <2>a, <3>1, AdvanceStack
    <3> QED  BY <2>0, <3>1, <3>3, <3>4
  <2>4. CASE Return
    <3>1. stack # <<>> /\ stack' = Pop(stack)  BY <2>4 DEF Return
    <3>2. Len(stack') = Len(stack) - 1 /\ Len(stack) \in Nat \ {0}
          /\ \A i \in 1 .. Len(stack) - 1 : stack'[i] = stack[i]
      BY <2>a, <3>1, PopStack, TopFrame
    <3>3. \A i \in 1 .. Len(stack') : i \in 1 .. Len(stack) /\ stack'[i] = stack[i]
      BY <3>2
    <3> QED  BY <3>3 DEF NoReentry
  <2>5. CASE Loaded \/ Judge \/ (\E f \in Files : Validate(f)) \/ UNCHANGED vars
    <3>1. stack' = stack  BY <2>5 DEF Loaded, Judge, Validate, vars
    <3> QED  BY <3>1 DEF NoReentry
  <2> QED  BY <2>1, <2>2, <2>3, <2>4, <2>5 DEF Next, Step
<1> QED  BY <1>1, <1>2, PTL DEF Spec

-----------------------------------------------------------------------------
(* Termination.  No file has two calls, so there are no more than files. *)
LEMMA RoomIsEnough ==
  ASSUME NEW s \in Seq(Frames), \A i, j \in 1 .. Len(s) : s[i].file = s[j].file => i = j
  PROVE  Room \in Nat /\ Len(s) <= Room
<1> DEFINE S == 1 .. Len(s)
           n == Len(s)
           f == [i \in S |-> s[i].file]
<1>1. IsFiniteSet(Readable) /\ Room \in Nat
  <2>1. Readable \in SUBSET Files  BY DEF Readable, Files
  <2>2. IsFiniteSet(Readable)  BY <2>1, FS_Subset
  <2> QED  BY <2>2, FS_CardinalityType DEF Room
<1>2. n \in Nat /\ f \in [S -> Readable]
  <2>1. \A i \in S : s[i] \in Frames  OBVIOUS
  <2> QED  BY <2>1 DEF Frames
<1>3. \A x, y \in S : f[x] = f[y] => x = y  OBVIOUS
<1>4. IsFiniteSet(S) /\ Cardinality(S) = n
  <2>1. 1 \in Int /\ n \in Int  BY <1>2
  <2> HIDE DEF n
  <2>2. IsFiniteSet(1 .. n) /\ Cardinality(1 .. n) = IF 1 > n THEN 0 ELSE n - 1 + 1
    BY <2>1, FS_Interval
  <2>3. Cardinality(1 .. n) = n  BY <1>2, <2>2
  <2> QED  BY <2>2, <2>3 DEF n
<1> HIDE DEF S, f, n
<1> SUFFICES ASSUME ~(n <= Room)  PROVE FALSE
  BY <1>1 DEF n
<1>5. Cardinality(Readable) < Cardinality(S)  BY <1>1, <1>2, <1>4 DEF Room
<1>6. \E x, y \in S : x # y /\ f[x] = f[y]  BY <1>1, <1>2, <1>4, <1>5, FS_PigeonHole
<1> QED  BY <1>3, <1>6

LEMMA NextShrinks ==
  ASSUME Inv, NoReentry, [Next]_vars, phase = "loading", phase' = "loading"
  PROVE  UNCHANGED vars \/ Precedes(Left(graph, stack, Room)', Left(graph, stack, Room))
<1>a. graph \in [Files -> Seq(Files)] /\ stack \in Seq(Frames)
      /\ importsLoadedList \in SUBSET Files /\ DoneIn(graph, stack, importsLoadedList)
  BY DEF Inv, TypeOK, StandaloneInv, SearchInv
<1>b. Room \in Nat /\ Len(stack) <= Room  BY <1>a, RoomIsEnough DEF NoReentry
<1>c. DoneIn(graph, stack, Files)  BY <1>a DEF DoneIn
<1>d. graph' = graph
  BY DEF Next, Step, Start, SkipImport, LoadImport, Return, Loaded, Validate, Judge, vars
<1> SUFFICES ASSUME ~UNCHANGED vars
             PROVE  Precedes(Left(graph, stack', Room), Left(graph, stack, Room))
  <2>1. Left(graph, stack, Room)' = Left(graph, stack', Room)  BY <1>d DEF Left, Room
  <2> QED  BY <2>1
<1>1. CASE SkipImport
  <2>1. HasNext(graph, stack) /\ stack' = Advance(stack)  BY <1>1 DEF SkipImport, HasImport
  <2> QED  BY <1>a, <1>b, <2>1, AdvanceLeft
<1>2. CASE LoadImport
  <2> DEFINE f == NextImport
  <2>1. HasNext(graph, stack)
        /\ stack' = IF f \in Readable THEN Append(Advance(stack), Frame(f)) ELSE Advance(stack)
    BY <1>2 DEF LoadImport, LoadModel, HasImport
  <2> HIDE DEF f
  <2>2. CASE f \in Readable  BY <1>a, <1>b, <2>1, <2>2, PushLeft
  <2>3. CASE f \notin Readable  BY <1>a, <1>b, <2>1, <2>3, AdvanceLeft
  <2> QED  BY <2>2, <2>3
<1>3. CASE Return
  <2>1. stack # <<>> /\ stack' = Pop(stack)  BY <1>3 DEF Return
  <2> QED  BY <1>a, <1>b, <1>c, <2>1, PopLeft
<1> QED  BY <1>1, <1>2, <1>3 DEF Next, Step, Start, Loaded, Validate, Judge

(* Reading what a deployment imports ends, whatever the cycles. *)
THEOREM StandaloneShrinks == Spec => SearchShrinks
<1> DEFINE T == Left(graph, stack, Room) \in [1 .. Room -> Nat]
           A == phase = "loading" /\ phase' = "loading" =>
                  Precedes(Left(graph, stack, Room)', Left(graph, stack, Room))
<1>1. Init => Inv  BY InitType, InitInv DEF Inv, Init
<1>2. Inv /\ [Next]_vars => Inv'
  <2>1. Inv => TypeOK  BY DEF Inv
  <2> QED  BY <2>1, NextType, NextInv
<1>3. Inv /\ NoReentry => T
  <2> SUFFICES ASSUME Inv, NoReentry  PROVE T
    OBVIOUS
  <2>1. graph \in [Files -> Seq(Files)] /\ stack \in Seq(Frames)
        /\ importsLoadedList \in SUBSET Files /\ DoneIn(graph, stack, importsLoadedList)
    BY DEF Inv, TypeOK, StandaloneInv, SearchInv
  <2>2. DoneIn(graph, stack, Files)  BY <2>1 DEF DoneIn
  <2>3. Room \in Nat  BY <2>1, RoomIsEnough DEF NoReentry
  <2> QED  BY <2>1, <2>2, <2>3, LeftType
<1>4. Inv /\ NoReentry /\ [Next]_vars => [A]_vars  BY NextShrinks
<1> HIDE DEF T, A
<1>5. Spec => []T /\ [][A]_vars
  BY <1>1, <1>2, <1>3, <1>4, StandaloneNoReentry, PTL DEF Spec
<1> QED  BY <1>5 DEF T, A, SearchShrinks

-----------------------------------------------------------------------------
(* Abstractly, a file is asked for, and answered in one step. *)
asked == IF phase = "loading" /\ root \in Readable THEN root ELSE NoFile
models == IF phase = "validating" THEN resources \cap (Fidl \cup Fdepl) ELSE {}

(* The steps of the search change nothing that the abstract loader shows, as *)
(* do the steps of the judging but the last, which hands the models back.    *)
THEOREM StandaloneImplements == Spec => ImplementsClosure
<1> USE DEF judging
<1>a. Closure!Files = Files /\ Closure!Readable = Readable
  BY DEF Closure!Files, Files, Closure!Readable, Readable
<1>b. Closure!Needed(graph, root) = Needed(graph, root)
  BY <1>a DEF Closure!Needed, Needed, Closure!Closed, Closed, Closure!Imported, Imported
<1>1. Init => Closure!Init
  <2> SUFFICES ASSUME Init  PROVE Closure!Init
    OBVIOUS
  <2>1. graph \in [Files -> Seq(Files)] /\ phase = "start"  BY DEF Init
  <2> QED  BY <1>a, <2>1 DEF Closure!Init
<1>2. Inv /\ [Next]_vars => [Closure!Next]_<<graph, asked, models>>
  <2> SUFFICES ASSUME Inv, [Next]_vars
               PROVE  Closure!Next \/ UNCHANGED <<graph, asked, models>>
    OBVIOUS
  <2>a. JudgeInv /\ SearchInv /\ graph \in ImportGraphs
    BY DEF Inv, StandaloneInv
  <2>1. ASSUME NEW r \in Files, Start(r)
        PROVE  Closure!Next \/ UNCHANGED <<graph, asked, models>>
    <3>1. phase = "start" /\ graph' = graph /\ root' = r /\ asked = NoFile /\ models = {}
      BY <2>1 DEF Start, asked, models
    <3>2. phase' \in {"loading", "done"} /\ models' = {}
      BY <2>1 DEF Start, models
    <3>3. CASE asked' = NoFile  BY <3>1, <3>2, <3>3
    <3>4. CASE asked' # NoFile
      <4>1. asked' = r /\ r \in Readable  BY <3>1, <3>4 DEF asked
      <4>2. Closure!Ask(r)  BY <3>1, <3>2, <4>1 DEF Closure!Ask, asked, models
      <4> QED  BY <1>a, <4>1, <4>2 DEF Closure!Next
    <3> QED  BY <3>3, <3>4
  <2>2. ASSUME SkipImport \/ LoadImport \/ Return
        PROVE  UNCHANGED <<graph, asked, models>>
    <3>1. graph' = graph /\ phase' = phase /\ root' = root
      BY <2>2 DEF SkipImport, LoadImport, Return
    <3>2. stack # <<>>  BY <2>2 DEF SkipImport, LoadImport, Return, HasImport, HasNext
    <3>3. phase = "loading"  BY <2>a, <3>2 DEF JudgeInv
    <3> QED  BY <3>1, <3>3 DEF asked, models
  <2>3. ASSUME Loaded
        PROVE  Closure!Next \/ UNCHANGED <<graph, asked, models>>
    <3>1. phase = "loading" /\ stack = <<>> /\ graph' = graph /\ root' = root
          /\ resources' = resources /\ phase' \in {"done", "validating"}
      BY <2>3 DEF Loaded
    <3>2. root \in importsLoadedList /\ root \in Files /\ resources = importsLoadedList
      BY <2>a, <3>1 DEF SearchInv, JudgeInv
    <3>3. resources = Needed(graph, root)  BY <3>1, <3>2, SearchIsComplete
    <3>4. models = {} /\ asked' = NoFile  BY <3>1 DEF models, asked
    <3>5. CASE root \in Readable
      <4>1. asked = root /\ root # NoFile  BY <3>1, <3>2, <3>5 DEF asked
      <4>2. CASE errors # {}
        <5>1. errors \subseteq Needed(graph, root) \cap Missing
          BY <2>a, <3>2, <3>3 DEF JudgeInv
        <5>2. models' = {}  BY <2>3, <4>2 DEF Loaded, models
        <5>3. Closure!GiveUp
          BY <1>b, <3>1, <3>4, <4>1, <4>2, <5>1, <5>2 DEF Closure!GiveUp, asked, models
        <5> QED  BY <5>3 DEF Closure!Next
      <4>3. CASE errors = {}
        <5>1. models' = resources \cap (Fidl \cup Fdepl)
          BY <2>3, <3>1, <4>3 DEF Loaded, models
        <5>2. Closure!Answer
          BY <1>b, <3>1, <3>3, <3>4, <4>1, <5>1 DEF Closure!Answer, asked, models
        <5> QED  BY <5>2 DEF Closure!Next
      <4> QED  BY <4>2, <4>3
    <3>6. CASE root \notin Readable
      <4>1. asked = NoFile  BY <3>6 DEF asked
      <4>2. Imported(graph, root) = {}
        BY <2>a, <3>2, <3>6, UnreadableLeaf DEF Readable, Files
      <4>3. Closed(graph, {root})  BY <4>2 DEF Closed
      <4>4. Needed(graph, root) \subseteq {root}  BY <3>2, <4>3, NeededLeast
      <4>5. models' = {}  BY <3>1, <3>3, <3>6, <4>4 DEF models, Readable
      <4> QED  BY <3>1, <3>4, <4>1, <4>5
    <3> QED  BY <3>5, <3>6
  <2>4. ASSUME NEW f \in Files, Validate(f)
        PROVE  UNCHANGED <<graph, asked, models>>
    BY <2>4 DEF Validate, asked, models
  <2>5. ASSUME Judge
        PROVE  Closure!Next
    <3>1. phase = "validating" /\ phase' = "done" /\ graph' = graph /\ root' = root
      BY <2>5 DEF Judge
    <3>2. Closure!Discard  BY <3>1 DEF Closure!Discard
    <3> QED  BY <3>2 DEF Closure!Next
  <2>6. CASE UNCHANGED vars
    BY <2>6 DEF vars, asked, models
  <2> QED  BY <2>1, <2>2, <2>3, <2>4, <2>5, <2>6 DEF Next, Step
<1>3. Init => Inv  BY InitType, InitInv DEF Inv, Init
<1>4. Inv /\ [Next]_vars => Inv'  BY NextType, NextInv DEF Inv
<1> QED  BY <1>1, <1>2, <1>3, <1>4, PTL DEF Spec, ImplementsClosure, Closure!Spec, asked, models
=============================================================================
