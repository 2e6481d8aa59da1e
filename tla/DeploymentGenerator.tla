------------------------- MODULE DeploymentGenerator -------------------------
(***************************************************************************)
(* What FrancaGenerator.doGenerate() does with the models that were loaded *)
(* for its input: doGenerateDeployment() goes through the deployments,     *)
(* calling itself for the imported ones, and doGenerateModel() writes the  *)
(* code of a model and, unless dependencies are switched off, once more    *)
(* that of all the others.                                                 *)
(*                                                                         *)
(* The code of one model depends on the deployment of every model whose    *)
(* types it uses, and it finds that with getAccessor() in a map that is    *)
(* filled on the way: for a model that is not in it yet an arbitrary       *)
(* accessor is taken.  Of the code of a model we keep which models had an  *)
(* accessor of their own in the map when the code was written last.        *)
(*                                                                         *)
(* HashMaps are iterated in any order.  The files needed are those that    *)
(* ModelLoader hands out (its LoadedIsNeeded).                             *)
(***************************************************************************)
EXTENDS ImportGraph, Descent

CONSTANT MaxDepth  \* bound: nested calls before the stack overflows

ASSUME DeploymentGeneratorAssumption == MaxDepth \in Nat \ {0}

VARIABLES
  graph,             \* what the files import
  root,              \* the input of doGenerate()
  withDependencies,  \* preference P_GENERATE_DEPENDENCIES
  models,            \* the interface models, by file
  deployments,       \* the deployment models, by file
  phase,             \* where doGenerate() is
  stack,             \* the doGenerateDeployment() calls, the innermost last
  accessors,         \* the models that are keys of accessors__
  generatedFiles,    \* the models doGenerateModel() was called for
  written,           \* the models whose code was written
  seen,              \* the accessors that the code of a model was made with
  visited            \* history: doGenerateDeployment() was called for these

input == <<graph, root, withDependencies>>
maps == <<models, deployments>>
code == <<generatedFiles, written, seen>>
vars == <<input, maps, phase, stack, accessors, code, visited>>

(* Mutant: a deployment counts as its own import. *)
DirectDeploymentsAndSelf(d) == (Imported(graph, d) \cup {d}) \cap deployments

DirectModels(d) == Imported(graph, d) \cap models
DirectDeployments(d) == Imported(graph, d) \cap deployments

(* A call: the loop it is in and the entries the loop has still to visit. *)
Deploying == Fdepl \cup SpecFiles
Entries(stage) == IF stage = "models" THEN Fidl ELSE Deploying
Stages == {"accessors", "deployments", "models"}
Calls == {c \in [file : Deploying, mustGenerate : BOOLEAN, stage : Stages,
                 todo : SUBSET (Fidl \cup Deploying)] : c.todo \subseteq Entries(c.stage)}
Call(d, must) ==
  [file |-> d, mustGenerate |-> must, stage |-> "accessors", todo |-> {}]

top == stack[Len(stack)]

TypeOK ==
  /\ graph \in [Files -> Seq(Files)] /\ root \in Readable
  /\ withDependencies \in BOOLEAN
  /\ models \subseteq Fidl /\ deployments \subseteq Deploying
  /\ phase \in {"start", "deploying", "done", "crashed"}
  /\ stack \in Seq(Calls)
  /\ accessors \subseteq Fidl /\ generatedFiles \subseteq Fidl
  /\ written \subseteq Fidl /\ seen \in [Fidl -> SUBSET Fidl]
  /\ visited \subseteq Deploying

Init ==
  /\ graph \in ImportGraphs /\ root \in Readable
  /\ withDependencies \in BOOLEAN
  /\ models = {} /\ deployments = {}
  /\ phase = "start" /\ stack = <<>> /\ accessors = {}
  /\ generatedFiles = {} /\ written = {} /\ seen = [m \in Fidl |-> {}]
  /\ visited = {}

-----------------------------------------------------------------------------
(* doGenerateComponents() of the models in M. *)
Write(M) ==
  /\ written' = written \cup M
  /\ seen' = [m \in Fidl |-> IF m \in M THEN accessors ELSE seen[m]]

(* Mutant: what was written as a dependency counts as generated. *)
GenerateModelOnce(m, M) ==
  IF m \in generatedFiles
    THEN UNCHANGED code
    ELSE /\ generatedFiles' = generatedFiles \cup (IF withDependencies THEN M ELSE {m})
         /\ Write(IF withDependencies THEN M ELSE {m})

(* doGenerateModel() of m, one of the models M. *)
GenerateModel(m, M) ==
  IF m \in generatedFiles
    THEN UNCHANGED code
    ELSE /\ generatedFiles' = generatedFiles \cup {m}
         /\ Write(IF withDependencies THEN M ELSE {m})

(* The maps get the model of the input too.  A .fidl file needs no accessors; *)
(* for a deployment the first call is made.                                   *)
Start ==
  /\ phase = "start"
  /\ models' = Needed(graph, root) \cap Fidl
  /\ deployments' = (Needed(graph, root) \cap Fdepl) \cup ({root} \ Fidl)
  /\ IF root \in Fidl
       THEN /\ phase' = "done" /\ GenerateModel(root, models')
            /\ UNCHANGED <<stack, visited>>
       ELSE /\ phase' = "deploying"
            /\ stack' = <<Call(root, TRUE)>> /\ visited' = {root}
            /\ UNCHANGED code
  /\ UNCHANGED <<input, accessors>>

In(stage) == phase = "deploying" /\ stack # <<>> /\ top.stage = stage

(* The innermost call goes on to another loop, or to the rest of one. *)
Goto(stage, todo) == [stack EXCEPT ![Len(stack)].stage = stage, ![Len(stack)].todo = todo]

(* doInsertAccessors() of every model the deployment imports. *)
InsertAccessors ==
  /\ In("accessors")
  /\ accessors' = accessors \cup DirectModels(top.file)
  /\ stack' = Goto("deployments", DirectDeployments(top.file))
  /\ UNCHANGED <<input, maps, phase, code, visited>>

(* The call for an imported deployment. *)
CallDeployment ==
  /\ In("deployments") /\ Len(stack) < MaxDepth
  /\ \E d \in top.todo :
       /\ stack' = Append(Goto("deployments", top.todo \ {d}), Call(d, withDependencies))
       /\ visited' = visited \cup {d}
  /\ UNCHANGED <<input, maps, phase, accessors, code>>

(* Nothing catches a StackOverflowError. *)
Overflow ==
  /\ In("deployments") /\ top.todo # {} /\ Len(stack) = MaxDepth
  /\ phase' = "crashed"
  /\ UNCHANGED <<input, maps, stack, accessors, code, visited>>

(* The last loop, if the caller wants it. *)
StartModels ==
  /\ In("deployments") /\ top.todo = {}
  /\ stack' = Goto("models", IF top.mustGenerate THEN DirectModels(top.file) ELSE {})
  /\ UNCHANGED <<input, maps, phase, accessors, code, visited>>

(* Mutant: the loop does not get past a model that was generated before. *)
GenerateModelsStuck ==
  /\ In("models")
  /\ \E m \in top.todo :
       /\ stack' = IF m \in generatedFiles THEN stack ELSE Goto("models", top.todo \ {m})
       /\ GenerateModel(m, models)
  /\ UNCHANGED <<input, maps, phase, accessors, visited>>

GenerateModels ==
  /\ In("models")
  /\ \E m \in top.todo :
       /\ stack' = Goto("models", top.todo \ {m})
       /\ GenerateModel(m, models)
  /\ UNCHANGED <<input, maps, phase, accessors, visited>>

(* The outermost call returns to doGenerate(), which clears the maps. *)
Return ==
  /\ In("models") /\ top.todo = {}
  /\ stack' = SubSeq(stack, 1, Len(stack) - 1)
  /\ phase' = IF Len(stack) = 1 THEN "done" ELSE phase
  /\ UNCHANGED <<input, maps, accessors, code, visited>>

Next ==
  \/ Start \/ InsertAccessors \/ CallDeployment \/ Overflow
  \/ StartModels \/ GenerateModels \/ Return

Spec == Init /\ [][Next]_vars

(* One thread that never waits. *)
FairSpec == Spec /\ WF_vars(Next)

-----------------------------------------------------------------------------
(* The deployments that the input reaches through deployments. *)
ClosedDeployments(S) == \A d \in S : DirectDeployments(d) \subseteq S
Reached ==
  {d \in deployments :
     \A S \in SUBSET deployments : root \in S /\ ClosedDeployments(S) => d \in S}

(* The models that any of them imports, and so may deploy. *)
Deployed == UNION {DirectModels(d) : d \in Reached}

(* The models whose code the input asks for. *)
Wanted ==
  CASE root \in Fidl -> IF withDependencies THEN models ELSE {root}
    [] root \notin Fidl /\ ~withDependencies -> DirectModels(root)
    [] root \notin Fidl /\ withDependencies -> IF Deployed = {} THEN {} ELSE models

(* The calls: all but the innermost are in the loop over the deployments. *)
CallInv(c) ==
  /\ c.file \in visited
  /\ c.stage = "deployments" => c.todo \subseteq DirectDeployments(c.file)
  /\ c.stage = "models" =>
       c.todo \subseteq IF c.mustGenerate THEN DirectModels(c.file) ELSE {}

StackInv ==
  /\ stack # <<>> /\ root \in visited /\ visited \subseteq Reached
  /\ stack[1].file = root /\ stack[1].mustGenerate
  /\ \A i \in 1 .. Len(stack) :
       /\ CallInv(stack[i])
       /\ i < Len(stack) => stack[i].stage = "deployments"
       /\ i > 1 => stack[i].mustGenerate = withDependencies

(* Something of a deployment that was visited is still to be done: its        *)
(* accessors, the call for an imported deployment, or the code of a model.    *)
WillInsert(d) ==
  \E i \in 1 .. Len(stack) : stack[i].file = d /\ stack[i].stage = "accessors"
WillCall(d, e) ==
  \E i \in 1 .. Len(stack) :
    stack[i].file = d /\ stack[i].stage = "deployments" /\ e \in stack[i].todo
WillGenerate(m) ==
  \E i \in 1 .. Len(stack) :
    \/ stack[i].stage = "deployments" /\ m \in DirectModels(stack[i].file)
    \/ stack[i].stage = "models" /\ m \in stack[i].todo

VisitedInv ==
  \A d \in visited :
    \/ WillInsert(d)
    \/ /\ DirectModels(d) \subseteq accessors
       /\ \A e \in DirectDeployments(d) : e \in visited \/ WillCall(d, e)

(* A model whose accessor came late has its code still to come, and all the   *)
(* others with it.                                                            *)
CodeInv ==
  /\ accessors \subseteq Deployed /\ accessors \subseteq models
  /\ generatedFiles \subseteq accessors
  /\ withDependencies =>
       /\ \A m \in accessors \ generatedFiles : WillGenerate(m)
       /\ written = IF generatedFiles = {} THEN {} ELSE models
       /\ accessors \subseteq generatedFiles => \A m \in written : seen[m] = accessors
  /\ ~withDependencies =>
       /\ written = generatedFiles /\ generatedFiles \subseteq DirectModels(root)
       /\ \A m \in written : seen[m] = accessors
       /\ IF stack[1].stage = "models"
            THEN DirectModels(root) \ stack[1].todo \subseteq generatedFiles
            ELSE generatedFiles = {}

(* When doGenerate() is through, exactly the models that were asked for are  *)
(* written, and each was written last when every model that a deployment     *)
(* imports had its accessor: although code is written while accessors are    *)
(* still missing, none of it stays, whatever order the maps have.            *)
OutputIsDeployed ==
  phase = "done" =>
    /\ written = Wanted
    /\ \A m \in written : seen[m] = IF root \in Fidl THEN {} ELSE Deployed

Fresh ==
  /\ models = {} /\ deployments = {} /\ stack = <<>> /\ accessors = {}
  /\ generatedFiles = {} /\ written = {} /\ visited = {}

(* What keeps the output right while it is in the making. *)
GeneratorInv ==
  /\ phase = "start" => Fresh
  /\ phase \in {"deploying", "crashed"} =>
       /\ root \notin Fidl /\ root \in deployments
       /\ StackInv /\ VisitedInv /\ CodeInv
  /\ OutputIsDeployed

(* The recursion, which keeps no record of the calls under way, runs out of  *)
(* stack on nothing but import cycles.                                       *)
NoStackOverflow == phase = "crashed" => ~Acyclic(graph)

(* The same without a limit on the deployments there are: calls nest as deep *)
(* as MaxDepth only through a cycle or that many deployments and one more.    *)
OverflowNeedsDepth ==
  phase = "crashed" => ~Acyclic(graph) \/ Cardinality(deployments) > MaxDepth

(* Every call is for a file that those around it need. *)
Below(f) == UNION {Needed(graph, h) : h \in Imported(graph, f)}
Nested ==
  \A i, j \in 1 .. Len(stack) : i < j => stack[j].file \in Below(stack[i].file)

(* What keeps the recursion off files whose call is under way, unless there   *)
(* is a cycle.                                                                *)
RecursionInv ==
  /\ deployments \subseteq Fdepl \cup {root}
  /\ phase \in {"deploying", "crashed"} => Nested /\ Len(stack) <= MaxDepth
  /\ phase = "crashed" =>
       Len(stack) = MaxDepth /\ top.stage = "deployments" /\ top.todo # {}

(* What a call has left: the entries of its loop, the loops after it, which    *)
(* may go over all files, and the return.                                     *)
CallLeft(c) ==
  LET loop == Cardinality(Files) + 1
      later == CASE c.stage = "accessors" -> 2 * loop [] c.stage = "deployments" -> loop
                 [] c.stage = "models" -> 0
  IN  Cardinality(c.todo) + 1 + later
CallsLeft == [i \in 1 .. MaxDepth |-> IF i <= Len(stack) THEN CallLeft(stack[i]) ELSE 0]

(* Nothing goes round for ever: every turn of a loop, every call and every     *)
(* return leaves less to do.                                                  *)
GenerationShrinks ==
  /\ [](CallsLeft \in [1 .. MaxDepth -> Nat])
  /\ [][phase = "deploying" /\ phase' = "deploying" => Precedes(CallsLeft', CallsLeft)]_vars

(* It goes on until it is through or out of stack. *)
GenerationEnds == <>(phase \in {"done", "crashed"})
=============================================================================
