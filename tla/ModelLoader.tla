----------------------------- MODULE ModelLoader -----------------------------
(***************************************************************************)
(* How the generator reads the file it is given and everything the file    *)
(* imports: FDeployManager.loadModel(), which calls itself for every       *)
(* import, and the frame FrancaGenerator.doGenerate() puts around it.  One *)
(* FDeployManager serves all the files of a command line, one after the    *)
(* other, so what one call leaves behind the next one finds.               *)
(*                                                                         *)
(* One step is one turn of the loop over the imports, or one return.       *)
(***************************************************************************)
EXTENDS LoadStack

CONSTANTS
  MaxRuns,   \* bound: files given on the command line
  MaxDepth   \* bound: nested calls of loadModel() before the stack overflows

ASSUME ModelLoaderAssumption == MaxRuns \in Nat /\ MaxDepth \in Nat \ {0}

VARIABLES
  graph,             \* what the files import
  phase,             \* where doGenerate() is
  root,              \* the file doGenerate() was called with
  stack,             \* the loadModel() calls, the innermost last
  importsLoadedList, \* read with contains() only: a set
  deploymentModels,  \* key set of the map
  fidlModels,        \* key set of the map
  specifications,    \* the files whose specifications are in the map
  loads,             \* times this doGenerate() has read a file
  runs,              \* calls of doGenerate()
  spoiled            \* history: an exception has left its state behind

maps == <<deploymentModels, fidlModels, specifications>>
vars == <<graph, phase, root, stack, importsLoadedList, maps, loads, runs, spoiled>>

TypeOK ==
  /\ graph \in [Files -> Seq(Files)]
  /\ phase \in {"idle", "loading", "loaded", "crashed"}
  /\ root \in Files \cup {NoFile}
  /\ stack \in Seq(Frames)
  /\ importsLoadedList \subseteq Files
  /\ deploymentModels \subseteq Fdepl \cup SpecFiles
  /\ fidlModels \subseteq Fidl /\ specifications \subseteq SpecFiles
  /\ loads \in [Files -> Nat] /\ runs \in Nat /\ spoiled \in BOOLEAN

Init ==
  /\ graph \in ImportGraphs
  /\ phase = "idle" /\ root = NoFile /\ stack = <<>>
  /\ importsLoadedList = {} /\ deploymentModels = {} /\ fidlModels = {}
  /\ specifications = {} /\ loads = [f \in Files |-> 0] /\ runs = 0
  /\ spoiled = FALSE

-----------------------------------------------------------------------------
(* Mutant: the check against the maps is left out. *)
KnownUnchecked(f) == f \in deploymentModels \cap fidlModels

(* loadModel() of a file that is a key of either map returns null.          *)
Known(f) == f \in deploymentModels \cup fidlModels

HasImport == phase = "loading" /\ HasNext(graph, stack)
NextImport == ImportAt(graph, stack)

(* resourceSet.getResource(), unload() and load(): a model that an earlier   *)
(* load of the file returned is unloaded with it.                            *)
Read(f) == loads' = [loads EXCEPT ![f] = @ + 1]

(* An exception leaves loadModel() and doGenerate(), neither of which        *)
(* catches it: the list and the maps stay as they are.                       *)
Throw == phase' = "idle" /\ stack' = <<>> /\ spoiled' = TRUE

(* doGenerate() calls loadModel() with the file it was given. *)
Start(r) ==
  /\ phase = "idle" /\ runs < MaxRuns
  /\ root' = r /\ runs' = runs + 1
  /\ importsLoadedList' = importsLoadedList \cup {r}
  /\ \/ /\ Known(r) \/ r \in Missing
        /\ phase' = "loaded" /\ loads' = [f \in Files |-> 0]
        /\ UNCHANGED <<stack, spoiled>>
     \/ /\ ~Known(r) /\ r \in Readable
        /\ phase' = "loading" /\ stack' = <<Frame(r)>>
        /\ loads' = [f \in Files |-> IF f = r THEN 1 ELSE 0]
        /\ UNCHANGED spoiled
     \/ ~Known(r) /\ r \in Empty /\ Throw /\ Read(r)
  /\ UNCHANGED <<graph, maps>>

SkipImport ==
  /\ HasImport /\ NextImport \in importsLoadedList
  /\ stack' = Advance(stack)
  /\ UNCHANGED <<graph, phase, root, importsLoadedList, maps, loads, runs, spoiled>>

(* The nested call returns null: the file is known or cannot be read. *)
ImportNothing ==
  /\ HasImport /\ NextImport \notin importsLoadedList
  /\ Known(NextImport) \/ NextImport \in Missing
  /\ importsLoadedList' = importsLoadedList \cup {NextImport}
  /\ stack' = Advance(stack)
  /\ UNCHANGED <<graph, phase, root, maps, loads, runs, spoiled>>

ImportModel ==
  /\ HasImport /\ NextImport \notin importsLoadedList
  /\ ~Known(NextImport) /\ NextImport \in Readable
  /\ Len(stack) < MaxDepth
  /\ importsLoadedList' = importsLoadedList \cup {NextImport}
  /\ stack' = Append(Advance(stack), Frame(NextImport))
  /\ Read(NextImport)
  /\ UNCHANGED <<graph, phase, root, maps, runs, spoiled>>

(* A StackOverflowError is no Exception: nothing catches it. *)
Overflow ==
  /\ HasImport /\ NextImport \notin importsLoadedList
  /\ ~Known(NextImport) /\ NextImport \in Readable
  /\ Len(stack) = MaxDepth
  /\ phase' = "crashed"
  /\ UNCHANGED <<graph, root, stack, importsLoadedList, maps, loads, runs, spoiled>>

(* resource.getContents().get(0) of a file without contents. *)
ImportThrows ==
  /\ HasImport /\ NextImport \notin importsLoadedList
  /\ NextImport \in Empty
  /\ importsLoadedList' = importsLoadedList \cup {NextImport}
  /\ Throw /\ Read(NextImport)
  /\ UNCHANGED <<graph, root, maps, runs>>

(* Mutant: interface models are recorded only for a root that is one. *)
RecordDeploymentsOnly(f) ==
  /\ deploymentModels' = deploymentModels \cup ({f} \cap Fdepl)
  /\ fidlModels' = fidlModels \cup ({f} \cap Fidl \cap Imported(graph, root))
  /\ specifications' = specifications \cup ({f} \cap SpecFiles)

(* What the caller does with the model that loadModel() returned: a model    *)
(* with specifications is not a deployment model.                            *)
RecordImport(f) ==
  /\ deploymentModels' = deploymentModels \cup ({f} \cap Fdepl)
  /\ fidlModels' = fidlModels \cup ({f} \cap Fidl)
  /\ specifications' = specifications \cup ({f} \cap SpecFiles)

RecordRoot(f) ==
  /\ deploymentModels' = deploymentModels \cup ({f} \cap (Fdepl \cup SpecFiles))
  /\ fidlModels' = fidlModels \cup ({f} \cap Fidl)
  /\ UNCHANGED specifications

(* loadModel() returns its model: validateElements, then the list is cleared *)
(* whatever the callers have put there.                                      *)
Return ==
  /\ phase = "loading" /\ stack # <<>> /\ ~HasImport
  /\ Top(stack).file \notin Fragile
  /\ importsLoadedList' = {}
  /\ stack' = Pop(stack)
  /\ IF Len(stack) = 1
       THEN phase' = "loaded" /\ RecordRoot(Top(stack).file)
       ELSE UNCHANGED phase /\ RecordImport(Top(stack).file)
  /\ UNCHANGED <<graph, root, loads, runs, spoiled>>

(* validateFDModelElements() throws instead: over what it finds in the model, *)
(* or in the lists of an earlier call that threw (ElementNames says when).   *)
NamingThrows ==
  /\ phase = "loading" /\ stack # <<>> /\ ~HasImport
  /\ Top(stack).file \in Fragile \/ (spoiled /\ Top(stack).file \in Fdepl \cup SpecFiles)
  /\ Throw
  /\ UNCHANGED <<graph, root, importsLoadedList, maps, loads, runs>>

(* Mutant: clearFidlModels() is not called. *)
GenerateKeepsFidl ==
  /\ phase = "loaded"
  /\ phase' = "idle"
  /\ deploymentModels' = {} /\ UNCHANGED fidlModels
  /\ spoiled' = (spoiled /\ importsLoadedList # {})
  /\ UNCHANGED <<graph, root, stack, importsLoadedList, specifications, loads, runs>>

(* The rest of doGenerate(), which clears both maps.  The specifications are *)
(* never cleared.                                                            *)
Generate ==
  /\ phase = "loaded"
  /\ phase' = "idle"
  /\ deploymentModels' = {} /\ fidlModels' = {}
  /\ spoiled' = (spoiled /\ importsLoadedList # {})
  /\ UNCHANGED <<graph, root, stack, importsLoadedList, specifications, loads, runs>>

Load ==
  \/ SkipImport \/ ImportNothing \/ ImportModel \/ Overflow
  \/ ImportThrows \/ Return \/ NamingThrows

Next == (\E r \in Files : Start(r)) \/ Load \/ Generate

Spec == Init /\ [][Next]_vars

-----------------------------------------------------------------------------
OnStack == FilesOf(stack)
Seen == {f \in Files : loads[f] > 0}

(* Where the calls are. *)
StackInv ==
  /\ phase \in {"idle", "loaded"} => stack = <<>>
  /\ phase \in {"loading", "crashed"} => stack # <<>> /\ stack[1].file = root
  /\ phase # "idle" => root \in Files

(* What was read, needed and recorded is the same thing, call by call.       *)
SeenInv ==
  /\ Seen \subseteq Needed(graph, root) \cap Readable /\ OnStack \subseteq Seen
  /\ deploymentModels \cup fidlModels \subseteq Seen
  /\ importsLoadedList \subseteq Seen \cup Missing
  /\ DoneIn(graph, stack, Seen \cup Missing)
  /\ \A f \in Seen \ OnStack :
       /\ Imported(graph, f) \subseteq Seen \cup Missing
       /\ f \in SpecFiles /\ f # root => f \in specifications
       /\ f \notin SpecFiles => Known(f)
  /\ deploymentModels \cap SpecFiles =
       IF phase = "loaded" THEN Seen \cap {root} \cap SpecFiles ELSE {}

LoaderInv ==
  /\ StackInv
  /\ ~spoiled /\ phase \in {"idle", "loaded"} => importsLoadedList \subseteq Missing
  /\ ~spoiled /\ phase = "idle" => deploymentModels \cup fidlModels = {}
  /\ ~spoiled /\ phase # "idle" => SeenInv
  /\ ~spoiled /\ phase = "loaded" => root \in Seen \cup Missing

(* When doGenerate() goes on to generate code, it has the models of exactly  *)
(* the readable files that its input needs, and their specifications: no     *)
(* import was skipped because the list or a map held a stale entry, and      *)
(* nothing of an earlier input is left.  A call right after one that threw   *)
(* is exempt (spoiled).                                                      *)
LoadedIsNeeded ==
  phase = "loaded" /\ ~spoiled =>
    /\ deploymentModels \cup fidlModels =
         Needed(graph, root) \cap (Fidl \cup Fdepl \cup ({root} \cap SpecFiles))
    /\ (Needed(graph, root) \cap SpecFiles) \ {root} \subseteq specifications

(* Only on an import cycle is a .fidl or .fdepl model read twice in one      *)
(* doGenerate(): reading it again unloads the model that was returned, and   *)
(* perhaps recorded, before.                                                 *)
LoadedOnce == (\E f \in Fidl \cup Fdepl : loads[f] > 1) => ~Acyclic(graph)

(* "Add the URI to be loaded, to check the cyclic imports": the recursion    *)
(* ends on every import graph.                                               *)
NoStackOverflow == phase # "crashed"

(* Every doGenerate() gets past its loadModel(), with or without a model,    *)
(* unless a file that needs itself needs a file with specifications too.     *)
SpecificationCycle ==
  \E f \in Files : /\ Needed(graph, f) \cap SpecFiles # {}
                   /\ \E h \in Imported(graph, f) : f \in Needed(graph, h)

LoadEnds ==
  phase = "loading"
    ~> (phase \in {"idle", "loaded"} \/ (phase = "crashed" /\ SpecificationCycle))

(* The same without fairness, and for any depth: a stack with room for the     *)
(* square of the number of files overflows on nothing else.                    *)
OverflowNeedsSpecification ==
  phase = "crashed" =>
    SpecificationCycle \/ MaxDepth <= Cardinality(Readable) * Cardinality(Readable)

(* Nothing goes round for ever: every turn of a loop, every call and every      *)
(* return leaves less to do than there was.                                    *)
LoadShrinks ==
  /\ [](Left(graph, stack, MaxDepth) \in [1 .. MaxDepth -> Nat])
  /\ [][phase = "loading" /\ phase' = "loading" =>
          Precedes(Left(graph, stack, MaxDepth)', Left(graph, stack, MaxDepth))]_vars

(* Every call is for a file that those around it need. *)
Below(g, f) == {x \in Files : \E h \in Imported(g, f) : x \in Needed(g, h)}
Nested(g, s) ==
  \A j \in 1 .. Len(s) : \A i \in 1 .. Len(s) : i < j => s[j].file \in Below(g, s[i].file)

(* The calls for a file. *)
CallsFor(s, f) == {i \in 1 .. Len(s) : s[i].file = f}
FewCalls(s) == \A f \in Readable : Cardinality(CallsFor(s, f)) <= Cardinality(Readable)

(* What each call for a file is paid for with: only the return of a model      *)
(* clears the list and lets a file that is being loaded be loaded once more,   *)
(* and that model is then known.                                               *)
Paid(g, s, list, known) ==
  \A f \in Readable \ known : Needed(g, f) \cap SpecFiles = {} =>
    LET paid == Cardinality(known \cap Needed(g, f))
    IN  Cardinality(CallsFor(s, f)) <= IF f \in list THEN paid + 1 ELSE paid

(* Above a file that is in the list nothing is known, unless that file is      *)
(* being loaded above it too.                                                  *)
ListedAbove(s, list, known) ==
  \A i, j \in 1 .. Len(s) :
    i < j /\ s[j].file \in known /\ s[i].file \in list \ known
    => \E k \in 1 .. Len(s) : j < k /\ s[k].file = s[i].file

DepthInv ==
  /\ Nested(graph, stack)
  /\ phase = "crashed" => Len(stack) = MaxDepth
  /\ phase \in {"loading", "crashed"} /\ ~SpecificationCycle =>
       /\ FewCalls(stack)
       /\ Paid(graph, stack, importsLoadedList, deploymentModels \cup fidlModels)
       /\ ListedAbove(stack, importsLoadedList, deploymentModels \cup fidlModels)

(* The abstract loader, which finds what is needed in one step.  What goes on *)
(* between an exception and the next generation from a clean state is hidden. *)
Closure == INSTANCE ImportClosure WITH
  asked <- IF phase \in {"loading", "crashed"} /\ ~spoiled THEN root ELSE NoFile,
  models <- IF phase = "loaded" /\ ~spoiled
              THEN (deploymentModels \cup fidlModels) \cap (Fidl \cup Fdepl) ELSE {}

(* The loader implements the abstract one: whatever it does on the way, the  *)
(* models are handed out all at once, and they are the right ones.           *)
ImplementsClosure == Closure!Spec
=============================================================================
