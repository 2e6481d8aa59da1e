----------------------- MODULE DeploymentGeneratorProofs -----------------------
(* Proofs about DeploymentGenerator, for every import graph, input, order of  *)
(* the maps and setting of the dependencies.                                  *)
EXTENDS DeploymentGenerator, LoadStackProofs, FiniteSetTheorems

USE ImportGraphAssumption, DeploymentGeneratorAssumption

-----------------------------------------------------------------------------
(* The calls. *)
LEMMA TopCall ==
  ASSUME TypeOK, stack # <<>>
  PROVE  /\ Len(stack) \in Nat \ {0} /\ top = stack[Len(stack)] /\ top \in Calls
         /\ \A i \in 1 .. Len(stack) : stack[i] \in Calls
<1>1. Len(stack) \in Nat \ {0} /\ \A i \in 1 .. Len(stack) : stack[i] \in Calls
  BY DEF TypeOK
<1> QED  BY <1>1 DEF top

(* Going to a loop changes nothing but the innermost call's place. *)
LEMMA GotoStack ==
  ASSUME TypeOK, stack # <<>>, NEW s \in Stages, NEW T \in SUBSET Entries(s)
  PROVE  /\ Goto(s, T) \in Seq(Calls) /\ Len(Goto(s, T)) = Len(stack) /\ Goto(s, T) # <<>>
         /\ \A i \in 1 .. Len(stack) :
              /\ Goto(s, T)[i].file = stack[i].file
              /\ Goto(s, T)[i].mustGenerate = stack[i].mustGenerate
              /\ i < Len(stack) => Goto(s, T)[i] = stack[i]
              /\ i = Len(stack) => Goto(s, T)[i].stage = s /\ Goto(s, T)[i].todo = T
<1> DEFINE c == [[top EXCEPT !.stage = s] EXCEPT !.todo = T]
<1>1. Len(stack) \in Nat \ {0} /\ top = stack[Len(stack)] /\ top \in Calls
      /\ stack \in Seq(Calls) /\ \A i \in 1 .. Len(stack) : stack[i] \in Calls
  BY TopCall DEF TypeOK
<1>2. c \in Calls /\ c.file = top.file /\ c.mustGenerate = top.mustGenerate
      /\ c.stage = s /\ c.todo = T
  BY <1>1 DEF Calls, Stages, Entries
<1>3. Goto(s, T) = [stack EXCEPT ![Len(stack)] = c]
  BY <1>1 DEF Goto, Calls
<1> HIDE DEF c
<1>4. Goto(s, T) \in Seq(Calls) /\ Len(Goto(s, T)) = Len(stack)
      /\ \A i \in 1 .. Len(stack) :
           Goto(s, T)[i] = IF i = Len(stack) THEN c ELSE stack[i]
  BY <1>1, <1>2, <1>3
<1> QED  BY <1>1, <1>2, <1>4

(* A call on top of the others. *)
LEMMA PushCall ==
  ASSUME NEW s \in Seq(Calls), NEW d \in Deploying, NEW must \in BOOLEAN
  PROVE  /\ Append(s, Call(d, must)) \in Seq(Calls)
         /\ Len(Append(s, Call(d, must))) = Len(s) + 1
         /\ Append(s, Call(d, must)) # <<>>
         /\ \A i \in 1 .. Len(s) : Append(s, Call(d, must))[i] = s[i]
         /\ Append(s, Call(d, must))[Len(s) + 1] = Call(d, must)
<1>1. Call(d, must) \in Calls  BY DEF Call, Calls, Stages, Entries
<1> HIDE DEF Call
<1> QED  BY <1>1

LEMMA FirstCall ==
  ASSUME NEW c \in Calls
  PROVE  <<c>> \in Seq(Calls) /\ Len(<<c>>) = 1 /\ <<c>>[1] = c /\ <<c>> # <<>>
OBVIOUS

(* The innermost call returns. *)
LEMMA PopCall ==
  ASSUME NEW s \in Seq(Calls), s # <<>>
  PROVE  /\ SubSeq(s, 1, Len(s) - 1) \in Seq(Calls)
         /\ Len(SubSeq(s, 1, Len(s) - 1)) = Len(s) - 1
         /\ \A i \in 1 .. Len(s) - 1 : SubSeq(s, 1, Len(s) - 1)[i] = s[i]
<1> DEFINE t == SubSeq(s, 1, Len(s) - 1)
<1>1. Len(s) \in Nat \ {0} /\ \A i \in 1 .. Len(s) - 1 : s[i] \in Calls  OBVIOUS
<1>2. /\ t \in Seq(Calls)
      /\ Len(t) = IF 1 <= Len(s) - 1 THEN Len(s) - 1 - 1 + 1 ELSE 0
      /\ \A i \in 1 .. Len(s) - 1 - 1 + 1 : t[i] = s[1 + i - 1]
  <2>1. 1 \in Int /\ Len(s) - 1 \in Int  BY <1>1
  <2> QED  BY <1>1, <2>1, SubSeqProperties
<1> HIDE DEF t
<1>3. Len(s) - 1 - 1 + 1 = Len(s) - 1 /\ \A i \in 1 .. Len(s) - 1 : 1 + i - 1 = i
  BY <1>1
<1>4. Len(t) = Len(s) - 1
  <2>1. \A n \in Nat \ {0} : (IF 1 <= n - 1 THEN n - 1 ELSE 0) = n - 1  OBVIOUS
  <2> QED  BY <1>1, <1>2, <1>3, <2>1
<1>5. \A i \in 1 .. Len(s) - 1 : t[i] = s[i]  BY <1>2, <1>3
<1> QED  BY <1>2, <1>4, <1>5 DEF t

-----------------------------------------------------------------------------
(* Type correctness. *)
LEMMA InitType == Init => TypeOK
<1> SUFFICES ASSUME Init  PROVE TypeOK
  OBVIOUS
<1>1. graph \in [Files -> Seq(Files)]  BY DEF Init
<1>2. seen \in [Fidl -> SUBSET Fidl]  BY DEF Init
<1>3. stack \in Seq(Calls)  BY DEF Init
<1> QED  BY <1>1, <1>2, <1>3 DEF Init, TypeOK

(* What is written and recorded are models. *)
LEMMA GenerateType ==
  ASSUME TypeOK, NEW M \in SUBSET Fidl, NEW m \in Fidl, GenerateModel(m, M)
  PROVE  /\ generatedFiles' \subseteq Fidl /\ written' \subseteq Fidl
         /\ seen' \in [Fidl -> SUBSET Fidl]
<1>1. CASE m \in generatedFiles
  BY <1>1 DEF GenerateModel, TypeOK, code
<1>2. CASE m \notin generatedFiles
  BY <1>2 DEF GenerateModel, Write, TypeOK
<1> QED  BY <1>1, <1>2

LEMMA NextType == TypeOK /\ [Next]_vars => TypeOK'
<1> SUFFICES ASSUME TypeOK, [Next]_vars  PROVE TypeOK'
  OBVIOUS
<1> USE DEF TypeOK, input, maps, code
<1>0. ASSUME NEW st, In(st)
      PROVE  /\ stack # <<>> /\ top \in Calls /\ top.todo \in SUBSET Entries(st)
             /\ top.file \in Deploying
  BY <1>0, TopCall DEF In, Calls
<1>1. CASE Start
  <2>1. /\ models' \subseteq Fidl /\ deployments' \subseteq Deploying
        /\ root \in Fidl => root \in models'
        /\ root \notin Fidl => root \in Deploying
    BY <1>1 DEF Start, Needed, Readable, Files, Deploying
  <2>2. CASE root \in Fidl
    <3>1. GenerateModel(root, models')  BY <1>1, <2>2 DEF Start
    <3>2. generatedFiles' \subseteq Fidl /\ written' \subseteq Fidl
          /\ seen' \in [Fidl -> SUBSET Fidl]
      BY <2>1, <2>2, <3>1, GenerateType
    <3> QED  BY <1>1, <2>1, <2>2, <3>2 DEF Start
  <2>3. CASE root \notin Fidl
    <3>1. Call(root, TRUE) \in Calls  BY <2>1, <2>3 DEF Call, Calls, Stages, Entries
    <3>2. <<Call(root, TRUE)>> \in Seq(Calls)  BY <3>1, FirstCall
    <3> QED  BY <1>1, <2>1, <2>3, <3>2 DEF Start
  <2> QED  BY <2>2, <2>3
<1>2. CASE InsertAccessors
  <2>1. /\ DirectDeployments(top.file) \in SUBSET Entries("deployments")
        /\ DirectModels(top.file) \subseteq Fidl /\ "deployments" \in Stages
    BY DEF DirectDeployments, DirectModels, Entries, Stages
  <2>2. stack' \in Seq(Calls)  BY <1>2, <1>0, <2>1, GotoStack DEF InsertAccessors
  <2> QED  BY <1>2, <2>1, <2>2 DEF InsertAccessors
<1>3. CASE CallDeployment
  <2>1. PICK d \in top.todo :
          /\ stack' = Append(Goto("deployments", top.todo \ {d}), Call(d, withDependencies))
          /\ visited' = visited \cup {d}
    BY <1>3 DEF CallDeployment
  <2>2. stack # <<>> /\ top.todo \in SUBSET Entries("deployments") /\ "deployments" \in Stages
    BY <1>3, <1>0 DEF CallDeployment, Stages
  <2>3. Goto("deployments", top.todo \ {d}) \in Seq(Calls) /\ d \in Deploying
    BY <2>2, GotoStack DEF Entries
  <2>4. stack' \in Seq(Calls)  BY <2>1, <2>3, PushCall
  <2> QED  BY <1>3, <2>1, <2>3, <2>4 DEF CallDeployment
<1>4. CASE Overflow  BY <1>4 DEF Overflow
<1>5. CASE StartModels
  <2>1. DirectModels(top.file) \subseteq Fidl /\ "models" \in Stages
    BY DEF DirectModels, Stages
  <2>2. stack' \in Seq(Calls)  BY <1>5, <1>0, <2>1, GotoStack DEF StartModels, Entries
  <2> QED  BY <1>5, <2>2 DEF StartModels
<1>6. CASE GenerateModels
  <2>1. PICK m \in top.todo :
          stack' = Goto("models", top.todo \ {m}) /\ GenerateModel(m, models)
    BY <1>6 DEF GenerateModels
  <2>2. stack # <<>> /\ top.todo \in SUBSET Entries("models") /\ "models" \in Stages
        /\ m \in Fidl
    BY <1>6, <1>0 DEF GenerateModels, Stages, Entries
  <2>3. stack' \in Seq(Calls)  BY <2>1, <2>2, GotoStack
  <2>4. generatedFiles' \subseteq Fidl /\ written' \subseteq Fidl
        /\ seen' \in [Fidl -> SUBSET Fidl]
    BY <2>1, <2>2, GenerateType
  <2> QED  BY <1>6, <2>3, <2>4 DEF GenerateModels
<1>7. CASE Return
  <2>1. stack' \in Seq(Calls)  BY <1>7, <1>0, PopCall DEF Return
  <2> QED  BY <1>7, <2>1 DEF Return
<1>8. CASE UNCHANGED vars  BY <1>8 DEF vars
<1> QED  BY <1>1, <1>2, <1>3, <1>4, <1>5, <1>6, <1>7, <1>8 DEF Next
(* Every state the generator reaches is well typed. *)
THEOREM GeneratorType == Spec => []TypeOK
BY InitType, NextType, PTL DEF Spec

-----------------------------------------------------------------------------
(* What the maps determine does not change while the calls are under way. *)
LEMMA SameMaps ==
  ASSUME UNCHANGED <<input, maps>>
  PROVE  /\ Reached' = Reached /\ Deployed' = Deployed /\ Wanted' = Wanted
         /\ DirectModels(root)' = DirectModels(root)
<1>1. graph' = graph /\ root' = root /\ withDependencies' = withDependencies
      /\ models' = models /\ deployments' = deployments
  BY DEF input, maps
<1>2. Reached' = Reached
  BY <1>1 DEF Reached, ClosedDeployments, DirectDeployments
<1>3. Deployed' = Deployed
  BY <1>1, <1>2 DEF Deployed, DirectModels
<1>4. Wanted' = Wanted
  BY <1>1, <1>3 DEF Wanted, DirectModels
<1> QED  BY <1>1, <1>2, <1>3, <1>4 DEF DirectModels

(* What the input reaches is closed, and in every closed set with the input. *)
LEMMA ReachedClosed ==
  ASSUME NEW d \in Reached
  PROVE  d \in deployments /\ DirectDeployments(d) \subseteq Reached
         /\ DirectModels(d) \subseteq Deployed
<1>1. ASSUME NEW e \in DirectDeployments(d), NEW S \in SUBSET deployments,
             root \in S, ClosedDeployments(S)
      PROVE  e \in S
  BY <1>1 DEF Reached, ClosedDeployments
<1>2. DirectDeployments(d) \subseteq deployments  BY DEF DirectDeployments
<1>3. DirectDeployments(d) \subseteq Reached  BY <1>1, <1>2 DEF Reached
<1> QED  BY <1>3 DEF Reached, Deployed

LEMMA ReachedLeast ==
  ASSUME NEW S \in SUBSET deployments, root \in S, ClosedDeployments(S)
  PROVE  Reached \subseteq S
BY DEF Reached
-----------------------------------------------------------------------------
(* The recursion while it is under way. *)
Running ==
  root \notin Fidl /\ root \in deployments /\ StackInv /\ VisitedInv /\ CodeInv

(* A call in another loop than that over the deployments is the innermost. *)
LEMMA InnermostLoop ==
  ASSUME TypeOK, StackInv, NEW i \in 1 .. Len(stack), stack[i].stage # "deployments"
  PROVE  i = Len(stack)
<1>1. Len(stack) \in Nat \ {0}  BY TopCall DEF StackInv
<1>2. ~(i < Len(stack))  BY DEF StackInv
<1> QED  BY <1>1, <1>2

(* While code is written, all accessors of the deployment are in the map. *)
LEMMA WritingHasAccessors ==
  ASSUME TypeOK, Running, In("models")
  PROVE  DirectModels(top.file) \subseteq accessors
         /\ \A e \in DirectDeployments(top.file) : e \in visited \/ WillCall(top.file, e)
<1>1. Len(stack) \in Nat \ {0} /\ top = stack[Len(stack)] /\ top.stage = "models"
  BY TopCall DEF In
<1>2. top.file \in visited  BY <1>1 DEF Running, StackInv, CallInv
<1>3. ~WillInsert(top.file)
  BY <1>1, InnermostLoop DEF WillInsert, Running
<1> QED  BY <1>2, <1>3 DEF Running, VisitedInv

(* The first call. *)
LEMMA StartRunning ==
  ASSUME TypeOK, Fresh, Start, root \notin Fidl
  PROVE  Running'
<1>1. /\ root' = root /\ graph' = graph /\ root \in Deploying /\ stack' = <<Call(root, TRUE)>>
      /\ visited' = {root} /\ accessors' = {} /\ generatedFiles' = {} /\ written' = {}
      /\ deployments' = (Needed(graph, root) \cap Fdepl) \cup ({root} \ Fidl)
      /\ withDependencies' = withDependencies
  BY DEF Start, Fresh, input, code, TypeOK, Readable, Deploying
<1>2. Call(root, TRUE) \in Calls /\ Call(root, TRUE).file = root
      /\ Call(root, TRUE).mustGenerate = TRUE /\ Call(root, TRUE).stage = "accessors"
  BY <1>1 DEF Call, Calls, Stages, Entries
<1>3. Len(stack') = 1 /\ stack'[1] = Call(root, TRUE) /\ stack' # <<>>
  BY <1>1, <1>2, FirstCall
<1>4. root \in deployments' /\ root' \notin Fidl /\ visited' \subseteq Reached'
  BY <1>1 DEF Reached
<1>5. 1 .. Len(stack') = {1}
  <2>1. 1 .. 1 = {1}  OBVIOUS
  <2> QED  BY <1>3, <2>1, Zenon
<1>6. StackInv'
  <2>1. stack'[1].file = root /\ stack'[1].mustGenerate /\ stack'[1].stage = "accessors"
    BY <1>2, <1>3
  <2>2. ASSUME NEW i \in 1 .. Len(stack')
        PROVE  /\ stack'[i].file \in visited' /\ stack'[i].stage = "accessors"
               /\ ~(i < Len(stack')) /\ ~(i > 1)
    <3>1. i = 1 /\ Len(stack') = 1  BY <1>3, <1>5
    <3>2. ~(i < Len(stack')) /\ ~(i > 1)  BY <3>1
    <3>3. stack'[i].file \in visited' /\ stack'[i].stage = "accessors"  BY <1>1, <2>1, <3>1
    <3> QED  BY <3>2, <3>3
  <2> QED  BY <1>1, <1>3, <1>4, <2>1, <2>2 DEF StackInv, CallInv
<1>7. VisitedInv'
  <2>1. stack'[1].file = root /\ stack'[1].stage = "accessors"  BY <1>2, <1>3
  <2> QED  BY <1>1, <1>5, <2>1 DEF VisitedInv, WillInsert
<1>8. CodeInv'
  BY <1>1, <1>2, <1>3 DEF CodeInv
<1> QED  BY <1>1, <1>4, <1>6, <1>7, <1>8 DEF Running

(* The accessors of a deployment's models. *)
LEMMA InsertRunning ==
  ASSUME TypeOK, Running, InsertAccessors
  PROVE  Running'
<1> DEFINE n == Len(stack)
<1>1. /\ n \in Nat \ {0} /\ stack # <<>> /\ top = stack[n] /\ top.stage = "accessors"
      /\ \A i \in 1 .. n : stack[i] \in Calls
  BY TopCall DEF InsertAccessors, In
<1>2. DirectDeployments(top.file) \in SUBSET Entries("deployments") /\ "deployments" \in Stages
  BY DEF DirectDeployments, Entries, Stages, TypeOK
<1>3. /\ Len(stack') = n /\ stack' # <<>>
      /\ \A i \in 1 .. n :
           /\ stack'[i].file = stack[i].file
           /\ stack'[i].mustGenerate = stack[i].mustGenerate
           /\ i < n => stack'[i] = stack[i]
           /\ i = n => stack'[i].stage = "deployments"
                       /\ stack'[i].todo = DirectDeployments(top.file)
  BY <1>1, <1>2, GotoStack DEF InsertAccessors
<1>4. /\ UNCHANGED <<graph, root, withDependencies, models, deployments, visited>>
      /\ UNCHANGED <<generatedFiles, written, seen>>
      /\ accessors' = accessors \cup DirectModels(top.file)
      /\ Reached' = Reached /\ Deployed' = Deployed
  BY SameMaps DEF InsertAccessors, input, maps, code
<1> HIDE DEF n
<1>5. top.file \in Reached /\ DirectModels(top.file) \subseteq Deployed
      /\ DirectModels(top.file) \subseteq models
  BY <1>1, ReachedClosed DEF Running, StackInv, CallInv, DirectModels, n
<1>6. StackInv'
  BY <1>1, <1>3, <1>4 DEF StackInv, CallInv, Running, DirectModels, DirectDeployments, n
<1>7. VisitedInv'
  <2>1. ASSUME NEW d \in visited, d # top.file, ~(\E i \in 1 .. n : stack'[i].file = d /\ stack'[i].stage = "accessors")
        PROVE  /\ DirectModels(d) \subseteq accessors'
               /\ \A e \in DirectDeployments(d) : e \in visited \/
                    \E i \in 1 .. n : stack'[i].file = d /\ stack'[i].stage = "deployments" /\ e \in stack'[i].todo
    <3>1. ~WillInsert(d)
      BY <1>1, <1>3, <2>1, InnermostLoop DEF WillInsert, Running, n
    <3>2. DirectModels(d) \subseteq accessors
          /\ \A e \in DirectDeployments(d) : e \in visited \/ WillCall(d, e)
      BY <2>1, <3>1 DEF Running, VisitedInv
    <3>3. \A i \in 1 .. n : stack[i].file = d => i # n /\ stack'[i] = stack[i]
      BY <1>1, <1>3, <2>1
    <3> QED  BY <1>4, <3>2, <3>3 DEF WillCall, n
  <2>2. /\ DirectModels(top.file) \subseteq accessors'
        /\ \A e \in DirectDeployments(top.file) :
             \E i \in 1 .. n : stack'[i].file = top.file /\ stack'[i].stage = "deployments" /\ e \in stack'[i].todo
    BY <1>1, <1>3, <1>4
  <2> QED
    BY <1>3, <1>4, <2>1, <2>2
    DEF VisitedInv, WillInsert, WillCall, DirectModels, DirectDeployments
<1>8. CodeInv'
  <2>1. /\ accessors' \subseteq Deployed' /\ accessors' \subseteq models'
        /\ generatedFiles' \subseteq accessors'
    BY <1>4, <1>5 DEF Running, CodeInv
  <2>2. ASSUME withDependencies, NEW m \in accessors' \ generatedFiles'
        PROVE  \E i \in 1 .. n :
                 \/ stack'[i].stage = "deployments" /\ m \in DirectModels(stack'[i].file)
                 \/ stack'[i].stage = "models" /\ m \in stack'[i].todo
    <3>1. CASE m \in DirectModels(top.file)
      BY <1>1, <1>3, <3>1
    <3>2. CASE m \in accessors
      <4>1. PICK i \in 1 .. n :
              \/ stack[i].stage = "deployments" /\ m \in DirectModels(stack[i].file)
              \/ stack[i].stage = "models" /\ m \in stack[i].todo
        BY <1>4, <2>2, <3>2 DEF Running, CodeInv, WillGenerate, n
      <4>2. i # n  BY <1>1, <4>1
      <4>3. stack'[i] = stack[i]  BY <1>1, <1>3, <4>2
      <4> QED  BY <4>1, <4>3
    <3> QED  BY <1>4, <2>2, <3>1, <3>2
  <2>3. ASSUME withDependencies, accessors' \subseteq generatedFiles'
        PROVE  \A m \in written' : seen'[m] = accessors'
    <3>1. accessors' = accessors  BY <1>4, <2>3 DEF Running, CodeInv
    <3> QED  BY <1>4, <2>3, <3>1 DEF Running, CodeInv
  <2>4. stack[1].stage # "models" /\ stack'[1].stage # "models" /\ stack'[1].file = root
    <3>1. CASE n = 1  BY <1>1, <1>3, <3>1 DEF Running, StackInv
    <3>2. CASE n # 1
      <4>1. 1 \in 1 .. n /\ 1 < n  BY <1>1, <3>2
      <4> QED  BY <1>3, <4>1 DEF Running, StackInv, n
    <3> QED  BY <3>1, <3>2
  <2>5. ~withDependencies =>
          /\ written' = generatedFiles' /\ generatedFiles' = {}
    BY <1>4, <2>4 DEF Running, CodeInv
  <2> QED
    BY <1>3, <1>4, <2>1, <2>2, <2>3, <2>4, <2>5
    DEF CodeInv, Running, WillGenerate, DirectModels
<1> QED  BY <1>4, <1>6, <1>7, <1>8 DEF Running
(* The call for an imported deployment. *)
LEMMA CallRunning ==
  ASSUME TypeOK, Running, CallDeployment
  PROVE  Running'
<1> DEFINE n == Len(stack)
<1>1. /\ n \in Nat \ {0} /\ stack # <<>> /\ top = stack[n] /\ top.stage = "deployments"
      /\ top \in Calls /\ \A i \in 1 .. n : stack[i] \in Calls
  BY TopCall DEF CallDeployment, In
<1>2. PICK d \in top.todo :
        /\ stack' = Append(Goto("deployments", top.todo \ {d}), Call(d, withDependencies))
        /\ visited' = visited \cup {d}
  BY DEF CallDeployment
<1>3. top.todo \ {d} \in SUBSET Entries("deployments") /\ "deployments" \in Stages
      /\ d \in Deploying
  BY <1>1 DEF Calls, Entries, Stages
<1>4. /\ Goto("deployments", top.todo \ {d}) \in Seq(Calls)
      /\ Len(Goto("deployments", top.todo \ {d})) = n
      /\ \A i \in 1 .. n :
           /\ Goto("deployments", top.todo \ {d})[i].file = stack[i].file
           /\ Goto("deployments", top.todo \ {d})[i].mustGenerate = stack[i].mustGenerate
           /\ i < n => Goto("deployments", top.todo \ {d})[i] = stack[i]
           /\ i = n => /\ Goto("deployments", top.todo \ {d})[i].stage = "deployments"
                       /\ Goto("deployments", top.todo \ {d})[i].todo = top.todo \ {d}
  BY <1>1, <1>3, GotoStack
<1>5. /\ Len(stack') = n + 1 /\ stack' # <<>> /\ stack'[n + 1] = Call(d, withDependencies)
      /\ \A i \in 1 .. n : stack'[i] = Goto("deployments", top.todo \ {d})[i]
  <2>1. withDependencies \in BOOLEAN  BY DEF TypeOK
  <2> DEFINE g == Goto("deployments", top.todo \ {d})
  <2>2. g \in Seq(Calls) /\ Len(g) = n /\ stack' = Append(g, Call(d, withDependencies))
    BY <1>2, <1>4
  <2> HIDE DEF g, n
  <2>3. /\ Len(stack') = Len(g) + 1 /\ stack' # <<>>
        /\ stack'[Len(g) + 1] = Call(d, withDependencies)
        /\ \A i \in 1 .. Len(g) : stack'[i] = g[i]
    BY <1>3, <2>1, <2>2, PushCall
  <2> QED  BY <2>2, <2>3 DEF g
<1>6. /\ \A i \in 1 .. n :
           /\ stack'[i].file = stack[i].file
           /\ stack'[i].mustGenerate = stack[i].mustGenerate
           /\ stack'[i].stage = "deployments" /\ stack[i].stage = "deployments"
           /\ i < n => stack'[i].todo = stack[i].todo
           /\ i = n => stack'[i].todo = top.todo \ {d}
      /\ stack'[n + 1].file = d /\ stack'[n + 1].mustGenerate = withDependencies
      /\ stack'[n + 1].stage = "accessors"
  <2>1. \A i \in 1 .. n : i < n \/ i = n  BY <1>1
  <2>2. \A i \in 1 .. n : stack[i].stage = "deployments"
    BY <1>1, <2>1 DEF Running, StackInv
  <2>3. Call(d, withDependencies).file = d /\ Call(d, withDependencies).stage = "accessors"
        /\ Call(d, withDependencies).mustGenerate = withDependencies
    BY DEF Call
  <2> DEFINE g == Goto("deployments", top.todo \ {d})
  <2>4. /\ \A i \in 1 .. n : stack'[i] = g[i]
        /\ \A i \in 1 .. n :
             /\ g[i].file = stack[i].file /\ g[i].mustGenerate = stack[i].mustGenerate
             /\ i < n => g[i] = stack[i]
             /\ i = n => g[i].stage = "deployments" /\ g[i].todo = top.todo \ {d}
    BY <1>4, <1>5
  <2> HIDE DEF g, n
  <2>5. ASSUME NEW i \in 1 .. n
        PROVE  /\ stack'[i].file = stack[i].file
               /\ stack'[i].mustGenerate = stack[i].mustGenerate
               /\ stack'[i].stage = "deployments" /\ stack[i].stage = "deployments"
               /\ i < n => stack'[i].todo = stack[i].todo
               /\ i = n => stack'[i].todo = top.todo \ {d}
    <3>1. stack'[i] = g[i] /\ stack[i].stage = "deployments"  BY <2>2, <2>4
    <3>2. CASE i < n
      <4>1. g[i] = stack[i] /\ i # n  BY <1>1, <2>4, <3>2
      <4> QED  BY <3>1, <4>1
    <3>3. CASE i = n
      <4>1. /\ g[i].stage = "deployments" /\ g[i].todo = top.todo \ {d} /\ ~(i < n)
            /\ g[i].file = stack[i].file /\ g[i].mustGenerate = stack[i].mustGenerate
        BY <1>1, <2>4, <3>3
      <4> QED  BY <3>1, <4>1
    <3> QED  BY <2>1, <3>2, <3>3
  <2>6. stack'[n + 1] = Call(d, withDependencies)  BY <1>5
  <2> QED  BY <2>3, <2>5, <2>6
<1>7. /\ UNCHANGED <<graph, root, withDependencies, models, deployments, accessors>>
      /\ UNCHANGED <<generatedFiles, written, seen>>
      /\ Reached' = Reached /\ Deployed' = Deployed
  BY SameMaps DEF CallDeployment, input, maps, code
<1> HIDE DEF n
<1>8. \A i \in 1 .. n + 1 : i \in 1 .. n \/ i = n + 1  BY <1>1
<1>9. 1 \in 1 .. n /\ n + 1 \in 1 .. n + 1 /\ \A i \in 1 .. n : i \in 1 .. n + 1  BY <1>1
<1>10. top.file \in Reached /\ top.todo \subseteq DirectDeployments(top.file) /\ d \in Reached
  BY <1>1, <1>2, <1>9, ReachedClosed DEF Running, StackInv, CallInv, n
<1>11. StackInv'
  <2>1. ASSUME NEW i \in 1 .. n
        PROVE  /\ stack'[i].file \in visited'
               /\ stack'[i].todo \subseteq DirectDeployments(stack'[i].file)
               /\ i > 1 => stack'[i].mustGenerate = withDependencies
    <3>1. /\ stack[i].file \in visited /\ stack[i].todo \subseteq DirectDeployments(stack[i].file)
          /\ i > 1 => stack[i].mustGenerate = withDependencies
      BY <1>6 DEF Running, StackInv, CallInv, n
    <3>2. stack'[i].todo \subseteq stack[i].todo  BY <1>1, <1>6
    <3> QED  BY <1>2, <1>6, <3>1, <3>2
  <2>2. ~(n + 1 < n + 1) /\ n + 1 > 1  BY <1>1
  <2>3. root \in visited' /\ visited' \subseteq Reached' /\ stack'[1].file = root
        /\ stack'[1].mustGenerate
    BY <1>2, <1>6, <1>7, <1>9, <1>10 DEF Running, StackInv
  <2> QED
    BY <1>2, <1>5, <1>6, <1>7, <1>8, <2>1, <2>2, <2>3
    DEF StackInv, CallInv, DirectDeployments
<1>12. VisitedInv'
  <2>1. \E i \in 1 .. n + 1 : stack'[i].file = d /\ stack'[i].stage = "accessors"
    BY <1>6, <1>9
  <2>2. ASSUME NEW e \in visited,
               ~ \E i \in 1 .. n + 1 : stack'[i].file = e /\ stack'[i].stage = "accessors"
        PROVE  /\ DirectModels(e) \subseteq accessors
               /\ \A f \in DirectDeployments(e) : f \in visited' \/
                    \E i \in 1 .. n + 1 :
                      stack'[i].file = e /\ stack'[i].stage = "deployments" /\ f \in stack'[i].todo
    <3>1. ~WillInsert(e)
      BY <1>6 DEF WillInsert, n
    <3>2. DirectModels(e) \subseteq accessors
          /\ \A f \in DirectDeployments(e) : f \in visited \/ WillCall(e, f)
      BY <3>1 DEF Running, VisitedInv
    <3>3. ASSUME NEW f, WillCall(e, f), f # d
          PROVE  \E i \in 1 .. n + 1 :
                   stack'[i].file = e /\ stack'[i].stage = "deployments" /\ f \in stack'[i].todo
      <4>1. PICK i \in 1 .. n : stack[i].file = e /\ f \in stack[i].todo
        BY <3>3 DEF WillCall, n
      <4>2. f \in stack'[i].todo
        <5>1. CASE i = n  BY <1>1, <1>6, <3>3, <4>1, <5>1
        <5>2. CASE i # n
          <6>1. i < n  BY <1>1, <5>2
          <6> QED  BY <1>6, <4>1, <6>1
        <5> QED  BY <5>1, <5>2
      <4> QED  BY <1>6, <1>9, <4>1, <4>2
    <3> QED  BY <1>2, <3>2, <3>3
  <2>3. ASSUME NEW e \in visited'
        PROVE  \/ \E i \in 1 .. n + 1 : stack'[i].file = e /\ stack'[i].stage = "accessors"
               \/ /\ DirectModels(e) \subseteq accessors
                  /\ \A f \in DirectDeployments(e) : f \in visited' \/
                       \E i \in 1 .. n + 1 :
                         stack'[i].file = e /\ stack'[i].stage = "deployments" /\ f \in stack'[i].todo
    <3>1. CASE e = d  BY <2>1, <3>1
    <3>2. CASE e # d
      <4>1. e \in visited  BY <1>2, <2>3, <3>2
      <4> QED  BY <2>2, <4>1
    <3> QED  BY <3>1, <3>2
  <2> QED
    BY <1>5, <1>7, <2>3
    DEF VisitedInv, WillInsert, WillCall, DirectModels, DirectDeployments
<1>13. CodeInv'
  <2>1. ASSUME NEW m, WillGenerate(m)
        PROVE  \E i \in 1 .. n + 1 :
                 \/ stack'[i].stage = "deployments" /\ m \in DirectModels(stack'[i].file)
                 \/ stack'[i].stage = "models" /\ m \in stack'[i].todo
    BY <1>6, <1>9, <2>1 DEF WillGenerate, n
  <2>2. stack[1].stage # "models" /\ stack'[1].stage # "models" /\ stack'[1].file = root
    BY <1>6, <1>9 DEF Running, StackInv
  <2>3. /\ accessors' \subseteq Deployed' /\ accessors' \subseteq models'
        /\ generatedFiles' \subseteq accessors'
        /\ withDependencies' =>
             /\ written' = IF generatedFiles' = {} THEN {} ELSE models'
             /\ accessors' \subseteq generatedFiles' => \A m \in written' : seen'[m] = accessors'
    BY <1>7 DEF Running, CodeInv
  <2>4. ~withDependencies => written' = {} /\ generatedFiles' = {}
    BY <1>7, <2>2 DEF Running, CodeInv
  <2> QED
    BY <1>5, <1>7, <2>1, <2>2, <2>3, <2>4
    DEF CodeInv, Running, WillGenerate, DirectModels
<1> QED  BY <1>7, <1>11, <1>12, <1>13 DEF Running
(* Going to, or on in, the loop that generates code. *)
LEMMA ModelsLoop ==
  ASSUME TypeOK, Running, stack # <<>>, NEW T \in SUBSET Fidl,
         top.stage = "models" \/ (top.stage = "deployments" /\ top.todo = {}),
         T \subseteq DirectModels(top.file), T # {} => top.mustGenerate,
         stack' = Goto("models", T),
         UNCHANGED <<input, maps, accessors, visited>>
  PROVE  /\ StackInv' /\ VisitedInv'
         /\ Len(stack') = Len(stack)
         /\ \A i \in 1 .. Len(stack) :
              /\ stack'[i].file = stack[i].file
              /\ i < Len(stack) => stack'[i] = stack[i]
              /\ i = Len(stack) => stack'[i].stage = "models" /\ stack'[i].todo = T
<1> DEFINE n == Len(stack)
<1>1. n \in Nat \ {0} /\ top = stack[n] /\ T \in SUBSET Entries("models") /\ "models" \in Stages
  BY TopCall DEF Entries, Stages
<1>2. /\ Len(stack') = n /\ stack' # <<>>
      /\ \A i \in 1 .. n :
           /\ stack'[i].file = stack[i].file
           /\ stack'[i].mustGenerate = stack[i].mustGenerate
           /\ i < n => stack'[i] = stack[i]
           /\ i = n => stack'[i].stage = "models" /\ stack'[i].todo = T
  BY <1>1, GotoStack
<1>3. /\ UNCHANGED <<graph, root, withDependencies, models, deployments, accessors, visited>>
      /\ Reached' = Reached
  BY SameMaps DEF input, maps
<1> HIDE DEF n
<1>4. \A i \in 1 .. n : i < n \/ i = n  BY <1>1
<1>5. StackInv'
  BY <1>1, <1>2, <1>3, <1>4 DEF StackInv, CallInv, Running, DirectModels, DirectDeployments, n
<1>6. VisitedInv'
  <2>1. ASSUME NEW d \in visited, ~ \E i \in 1 .. n : stack'[i].file = d /\ stack'[i].stage = "accessors"
        PROVE  /\ DirectModels(d) \subseteq accessors
               /\ \A e \in DirectDeployments(d) : e \in visited \/
                    \E i \in 1 .. n : stack'[i].file = d /\ stack'[i].stage = "deployments" /\ e \in stack'[i].todo
    <3>1. ~WillInsert(d)
      BY <1>1, <1>2, <1>4, <2>1 DEF WillInsert, n
    <3>2. DirectModels(d) \subseteq accessors
          /\ \A e \in DirectDeployments(d) : e \in visited \/ WillCall(d, e)
      BY <2>1, <3>1 DEF Running, VisitedInv
    <3>3. ASSUME NEW e, WillCall(d, e)
          PROVE  \E i \in 1 .. n : stack'[i].file = d /\ stack'[i].stage = "deployments" /\ e \in stack'[i].todo
      <4>1. PICK i \in 1 .. n :
              stack[i].file = d /\ stack[i].stage = "deployments" /\ e \in stack[i].todo
        BY <3>3 DEF WillCall, n
      <4>2. i # n  BY <1>1, <4>1
      <4> QED  BY <1>2, <1>4, <4>1, <4>2
    <3> QED  BY <3>2, <3>3
  <2> QED
    BY <1>2, <1>3, <2>1
    DEF VisitedInv, WillInsert, WillCall, DirectModels, DirectDeployments
<1> QED  BY <1>2, <1>5, <1>6 DEF n

(* The deployments are through, the models are next. *)
LEMMA StartModelsRunning ==
  ASSUME TypeOK, Running, StartModels
  PROVE  Running'
<1> DEFINE n == Len(stack)
           T == IF top.mustGenerate THEN DirectModels(top.file) ELSE {}
<1>1. /\ n \in Nat \ {0} /\ stack # <<>> /\ top = stack[n] /\ top.stage = "deployments"
      /\ top.todo = {} /\ stack' = Goto("models", T)
  BY TopCall DEF StartModels, In
<1>2. /\ UNCHANGED <<input, maps, accessors, visited>>
      /\ UNCHANGED <<graph, root, withDependencies, models, deployments>>
      /\ UNCHANGED <<generatedFiles, written, seen>> /\ Deployed' = Deployed
  BY SameMaps DEF StartModels, input, maps, code
<1>3. T \in SUBSET Fidl /\ T \subseteq DirectModels(top.file) /\ (T # {} => top.mustGenerate)
  BY DEF DirectModels, TypeOK
<1>4. /\ StackInv' /\ VisitedInv' /\ Len(stack') = n
      /\ \A i \in 1 .. n :
           /\ stack'[i].file = stack[i].file
           /\ i < n => stack'[i] = stack[i]
           /\ i = n => stack'[i].stage = "models" /\ stack'[i].todo = T
  BY <1>1, <1>2, <1>3, ModelsLoop
<1> HIDE DEF n
<1>5. 1 \in 1 .. n /\ n \in 1 .. n /\ \A i \in 1 .. n : i < n \/ i = n  BY <1>1
<1>6. top.mustGenerate \in BOOLEAN /\ (n > 1 => top.mustGenerate = withDependencies)
      /\ (n = 1 => top.mustGenerate /\ top.file = root) /\ stack[1].file = root
  BY <1>1, <1>5, TopCall DEF Running, StackInv, Calls, n
<1>7. ASSUME withDependencies, NEW m \in accessors \ generatedFiles
      PROVE  \E i \in 1 .. n :
               \/ stack'[i].stage = "deployments" /\ m \in DirectModels(stack'[i].file)
               \/ stack'[i].stage = "models" /\ m \in stack'[i].todo
  <2>1. PICK i \in 1 .. n :
          \/ stack[i].stage = "deployments" /\ m \in DirectModels(stack[i].file)
          \/ stack[i].stage = "models" /\ m \in stack[i].todo
    BY <1>7 DEF Running, CodeInv, WillGenerate, n
  <2>2. CASE i < n  BY <1>4, <2>1, <2>2
  <2>3. CASE i = n
    <3>1. m \in DirectModels(top.file)  BY <1>1, <2>1, <2>3
    <3>2. top.mustGenerate
      <4>1. CASE n = 1  BY <1>6, <4>1
      <4>2. CASE n # 1
        <5>1. n > 1  BY <1>1, <4>2
        <5>2. top.mustGenerate = withDependencies  BY <1>6, <5>1
        <5> QED  BY <1>7, <5>2, Zenon
      <4> QED  BY <4>1, <4>2
    <3> QED  BY <1>4, <2>3, <3>1, <3>2
  <2> QED  BY <1>5, <2>2, <2>3
<1>8. ASSUME ~withDependencies
      PROVE  /\ written' = {} /\ generatedFiles' = {}
             /\ stack'[1].stage = "models" => stack'[1].todo = DirectModels(root)
  <2>1. stack[1].stage # "models"
    <3>1. CASE n = 1  BY <1>1, <3>1
    <3>2. CASE n # 1
      <4>1. 1 < n  BY <1>1, <3>2
      <4> QED  BY <1>5, <4>1 DEF Running, StackInv, n
    <3> QED  BY <3>1, <3>2
  <2>2. written' = {} /\ generatedFiles' = {}
    BY <1>2, <1>8, <2>1 DEF Running, CodeInv
  <2>3. CASE n = 1
    BY <1>4, <1>5, <1>6, <2>2, <2>3
  <2>4. CASE n # 1
    <3>1. 1 < n  BY <1>1, <2>4
    <3>2. stack'[1] = stack[1]  BY <1>4, <1>5, <3>1
    <3> QED  BY <2>1, <2>2, <3>2
  <2> QED  BY <2>3, <2>4
<1>9. /\ accessors' \subseteq Deployed' /\ accessors' \subseteq models'
      /\ generatedFiles' \subseteq accessors'
      /\ withDependencies' =>
           /\ written' = IF generatedFiles' = {} THEN {} ELSE models'
           /\ accessors' \subseteq generatedFiles' => \A m \in written' : seen'[m] = accessors'
  BY <1>2 DEF Running, CodeInv
<1>10. CodeInv'
  <2>1. CASE withDependencies
    BY <1>2, <1>4, <1>7, <1>9, <2>1 DEF CodeInv, WillGenerate, DirectModels
  <2>2. CASE ~withDependencies
    BY <1>2, <1>8, <1>9, <2>2 DEF CodeInv, DirectModels
  <2> QED  BY <2>1, <2>2
<1> QED  BY <1>2, <1>4, <1>10 DEF Running
(* The code of one more model, or of all. *)
LEMMA GenerateRunning ==
  ASSUME TypeOK, Running, GenerateModels
  PROVE  Running'
<1> DEFINE n == Len(stack)
<1>1. /\ n \in Nat \ {0} /\ stack # <<>> /\ top = stack[n] /\ top.stage = "models"
      /\ top \in Calls /\ In("models")
  BY TopCall DEF GenerateModels, In
<1>2. PICK m \in top.todo : stack' = Goto("models", top.todo \ {m}) /\ GenerateModel(m, models)
  BY DEF GenerateModels
<1>3. /\ UNCHANGED <<input, maps, accessors, visited>>
      /\ UNCHANGED <<graph, root, withDependencies, models, deployments>>
      /\ Deployed' = Deployed
  BY SameMaps DEF GenerateModels, input, maps
<1>4. 1 \in 1 .. n /\ n \in 1 .. n /\ \A i \in 1 .. n : i < n \/ i = n  BY <1>1
<1>5. /\ top.todo \subseteq IF top.mustGenerate THEN DirectModels(top.file) ELSE {}
      /\ top.todo \subseteq Fidl /\ top.file \in visited
  BY <1>1, <1>4 DEF Running, StackInv, CallInv, Calls, Entries
<1>6. top.mustGenerate /\ m \in DirectModels(top.file)  BY <1>2, <1>5
<1>7. m \in accessors /\ m \in models
  BY <1>1, <1>6, WritingHasAccessors DEF DirectModels
<1>8. /\ StackInv' /\ VisitedInv' /\ Len(stack') = n
      /\ \A i \in 1 .. n :
           /\ stack'[i].file = stack[i].file
           /\ i < n => stack'[i] = stack[i]
           /\ i = n => stack'[i].stage = "models" /\ stack'[i].todo = top.todo \ {m}
  <2> DEFINE T == top.todo \ {m}
  <2>1. T \in SUBSET Fidl /\ T \subseteq DirectModels(top.file) /\ (T # {} => top.mustGenerate)
    BY <1>5, <1>6
  <2>2. stack' = Goto("models", T)  BY <1>2
  <2>3. /\ StackInv' /\ VisitedInv' /\ Len(stack') = n
        /\ \A i \in 1 .. n :
             /\ stack'[i].file = stack[i].file
             /\ i < n => stack'[i] = stack[i]
             /\ i = n => stack'[i].stage = "models" /\ stack'[i].todo = T
    BY <1>1, <1>3, <2>1, <2>2, ModelsLoop
  <2> QED  BY <2>3
<1> HIDE DEF n
<1>9. generatedFiles' = generatedFiles \cup {m} /\ generatedFiles' # {}
      /\ generatedFiles' \subseteq accessors
  <2>1. generatedFiles' = generatedFiles \cup {m}
    BY <1>2 DEF GenerateModel, code
  <2> QED  BY <1>7, <2>1 DEF Running, CodeInv
<1>10. /\ accessors' \subseteq Deployed' /\ accessors' \subseteq models'
       /\ generatedFiles' \subseteq accessors'
  BY <1>3, <1>9 DEF Running, CodeInv
<1>11. models \subseteq Fidl  BY DEF TypeOK
<1>12. CASE withDependencies
  <2>1. ASSUME NEW x \in accessors \ generatedFiles'
        PROVE  \E i \in 1 .. n :
                 \/ stack'[i].stage = "deployments" /\ x \in DirectModels(stack'[i].file)
                 \/ stack'[i].stage = "models" /\ x \in stack'[i].todo
    <3>1. PICK i \in 1 .. n :
            \/ stack[i].stage = "deployments" /\ x \in DirectModels(stack[i].file)
            \/ stack[i].stage = "models" /\ x \in stack[i].todo
      BY <1>9, <1>12, <2>1 DEF Running, CodeInv, WillGenerate, n
    <3>2. CASE i < n  BY <1>8, <3>1, <3>2
    <3>3. CASE i = n
      <4>1. x \in top.todo /\ x # m  BY <1>1, <1>9, <2>1, <3>1, <3>3
      <4> QED  BY <1>8, <3>3, <4>1
    <3> QED  BY <1>4, <3>2, <3>3
  <2>2. written' = models /\ (accessors \subseteq generatedFiles' => \A x \in written' : seen'[x] = accessors)
    <3>1. CASE m \in generatedFiles
      <4>1. UNCHANGED <<generatedFiles, written, seen>>
        BY <1>2, <3>1 DEF GenerateModel, code
      <4> QED  BY <1>12, <3>1, <4>1 DEF Running, CodeInv
    <3>2. CASE m \notin generatedFiles
      <4>1. written' = written \cup models
            /\ seen' = [x \in Fidl |-> IF x \in models THEN accessors ELSE seen[x]]
        BY <1>2, <1>12, <3>2 DEF GenerateModel, Write
      <4>2. written \subseteq models  BY <1>12 DEF Running, CodeInv
      <4> QED  BY <1>11, <4>1, <4>2
    <3> QED  BY <3>1, <3>2
  <2>3. CodeInv'
    BY <1>3, <1>8, <1>9, <1>10, <1>12, <2>1, <2>2 DEF CodeInv, WillGenerate, DirectModels
  <2> QED  BY <1>3, <1>8, <2>3 DEF Running
<1>13. CASE ~withDependencies
  <2>1. n = 1 /\ top = stack[1] /\ top.file = root
    <3>1. n > 1 => top.mustGenerate = withDependencies
      BY <1>1, <1>4 DEF Running, StackInv, n
    <3>2. ~(n > 1)  BY <1>6, <1>13, <3>1, Zenon
    <3>3. n = 1  BY <1>1, <3>2
    <3> QED  BY <1>1, <3>3 DEF Running, StackInv
  <2>2. DirectModels(root) \ top.todo \subseteq generatedFiles
    BY <1>1, <1>13, <2>1 DEF Running, CodeInv
  <2>3. stack'[1].stage = "models" /\ stack'[1].todo = top.todo \ {m}
    BY <1>4, <1>8, <2>1
  <2>4. written' = generatedFiles' /\ \A x \in written' : seen'[x] = accessors
    <3>1. CASE m \in generatedFiles
      <4>1. UNCHANGED <<generatedFiles, written, seen>>
        BY <1>2, <3>1 DEF GenerateModel, code
      <4> QED  BY <1>13, <4>1 DEF Running, CodeInv
    <3>2. CASE m \notin generatedFiles
      <4>1. written' = written \cup {m}
            /\ seen' = [x \in Fidl |-> IF x \in {m} THEN accessors ELSE seen[x]]
        BY <1>2, <1>13, <3>2 DEF GenerateModel, Write
      <4>2. written = generatedFiles /\ \A x \in written : seen[x] = accessors
        BY <1>13 DEF Running, CodeInv
      <4>3. written \subseteq Fidl /\ m \in Fidl  BY <1>7, <1>11 DEF TypeOK
      <4> QED  BY <1>9, <4>1, <4>2, <4>3
    <3> QED  BY <3>1, <3>2
  <2>5. generatedFiles' \subseteq DirectModels(root)
    <3>1. generatedFiles \subseteq DirectModels(root)  BY <1>13 DEF Running, CodeInv
    <3> QED  BY <1>6, <1>9, <2>1, <3>1
  <2>6. DirectModels(root) \ (top.todo \ {m}) \subseteq generatedFiles'
    BY <1>9, <2>2
  <2>7. CodeInv'
    BY <1>3, <1>10, <1>13, <2>3, <2>4, <2>5, <2>6 DEF CodeInv, DirectModels
  <2> QED  BY <1>3, <1>8, <2>7 DEF Running
<1> QED  BY <1>12, <1>13

(* A nested call returns. *)
LEMMA ReturnRunning ==
  ASSUME TypeOK, Running, Return, Len(stack) # 1
  PROVE  Running'
<1> DEFINE n == Len(stack)
<1>1. /\ n \in Nat \ {0} /\ stack # <<>> /\ top = stack[n] /\ top.stage = "models"
      /\ top.todo = {} /\ stack \in Seq(Calls)
  BY TopCall DEF Return, In, TypeOK
<1>2. Len(stack') = n - 1 /\ \A i \in 1 .. n - 1 : stack'[i] = stack[i]
  BY <1>1, PopCall DEF Return
<1>3. /\ UNCHANGED <<graph, root, withDependencies, models, deployments, accessors, visited>>
      /\ UNCHANGED <<generatedFiles, written, seen>>
      /\ Deployed' = Deployed /\ Reached' = Reached
  BY SameMaps DEF Return, input, maps, code
<1> HIDE DEF n
<1>4. /\ n > 1 /\ n - 1 \in Nat \ {0} /\ 1 \in 1 .. n - 1
      /\ \A i \in 1 .. n - 1 : i < n /\ i \in 1 .. n
      /\ \A i \in 1 .. n : i \in 1 .. n - 1 \/ i = n
  <2>1. \A k \in Nat \ {0} : k # 1 =>
          /\ k > 1 /\ k - 1 \in Nat \ {0} /\ 1 \in 1 .. k - 1
          /\ \A i \in 1 .. k - 1 : i < k /\ i \in 1 .. k
          /\ \A i \in 1 .. k : i \in 1 .. k - 1 \/ i = k
    OBVIOUS
  <2>2. n # 1  BY DEF n
  <2> QED  BY <1>1, <2>1, <2>2
<1>5. stack' # <<>>  BY <1>2, <1>4, PopCall, <1>1 DEF Return
<1>6. StackInv'
  BY <1>2, <1>3, <1>4, <1>5 DEF StackInv, CallInv, Running, DirectModels, DirectDeployments, n
<1>7. VisitedInv'
  <2>1. ASSUME NEW d \in visited
        PROVE  /\ DirectModels(d) \subseteq accessors
               /\ \A e \in DirectDeployments(d) : e \in visited \/
                    \E i \in 1 .. n - 1 : stack'[i].file = d /\ stack'[i].stage = "deployments" /\ e \in stack'[i].todo
    <3>1. ~WillInsert(d)
      BY <1>1, InnermostLoop DEF WillInsert, Running, n
    <3>2. DirectModels(d) \subseteq accessors
          /\ \A e \in DirectDeployments(d) : e \in visited \/ WillCall(d, e)
      BY <2>1, <3>1 DEF Running, VisitedInv
    <3> QED  BY <1>1, <1>2, <1>4, <3>2 DEF WillCall, n
  <2> QED
    BY <1>2, <1>3, <2>1
    DEF VisitedInv, WillInsert, WillCall, DirectModels, DirectDeployments
<1>8. CodeInv'
  <2>1. ASSUME NEW m, WillGenerate(m)
        PROVE  \E i \in 1 .. n - 1 :
                 \/ stack'[i].stage = "deployments" /\ m \in DirectModels(stack'[i].file)
                 \/ stack'[i].stage = "models" /\ m \in stack'[i].todo
    BY <1>1, <1>2, <1>4, <2>1 DEF WillGenerate, n
  <2>2. stack'[1] = stack[1]  BY <1>2, <1>4
  <2>3. /\ accessors' \subseteq Deployed' /\ accessors' \subseteq models'
        /\ generatedFiles' \subseteq accessors'
        /\ withDependencies' =>
             /\ written' = IF generatedFiles' = {} THEN {} ELSE models'
             /\ accessors' \subseteq generatedFiles' => \A m \in written' : seen'[m] = accessors'
    BY <1>3 DEF Running, CodeInv
  <2>4. CASE withDependencies
    BY <1>2, <1>3, <2>1, <2>3, <2>4 DEF CodeInv, Running, WillGenerate, DirectModels
  <2>5. CASE ~withDependencies
    BY <1>3, <2>2, <2>3, <2>5 DEF CodeInv, Running, DirectModels
  <2> QED  BY <2>4, <2>5
<1> QED  BY <1>3, <1>6, <1>7, <1>8 DEF Running
(* The first call returns: nothing waits any more. *)
LEMMA ReturnDone ==
  ASSUME TypeOK, Running, Return, Len(stack) = 1
  PROVE  phase' = "done" /\ OutputIsDeployed'
<1>1. /\ stack # <<>> /\ top = stack[1] /\ top.stage = "models" /\ top.todo = {}
      /\ 1 .. Len(stack) = {1}
  <2>1. 1 .. 1 = {1}  OBVIOUS
  <2>2. 1 .. Len(stack) = {1}  BY <2>1, Zenon
  <2> QED  BY <2>2 DEF Return, In, top
<1>2. /\ UNCHANGED <<root, withDependencies, accessors, written, seen>>
      /\ phase' = "done" /\ Deployed' = Deployed /\ Wanted' = Wanted
  BY SameMaps DEF Return, input, maps, code
<1>3. /\ \A d : ~WillInsert(d)
      /\ \A d, e : ~WillCall(d, e)
      /\ \A m : ~WillGenerate(m)
  BY <1>1 DEF WillInsert, WillCall, WillGenerate
<1>4. accessors = Deployed
  <2>1. \A d \in visited : /\ DirectModels(d) \subseteq accessors
                           /\ DirectDeployments(d) \subseteq visited
    BY <1>3 DEF Running, VisitedInv
  <2>2. visited \subseteq deployments  BY DEF Running, StackInv, Reached
  <2>3. Reached \subseteq visited
    BY <2>1, <2>2, ReachedLeast DEF ClosedDeployments, Running, StackInv
  <2>4. Deployed \subseteq accessors  BY <2>1, <2>3 DEF Deployed
  <2> QED  BY <2>4 DEF Running, CodeInv
<1>5. CASE withDependencies
  <2>1. accessors \subseteq generatedFiles /\ generatedFiles = accessors
    BY <1>3, <1>5 DEF Running, CodeInv
  <2>2. \A m \in written : seen[m] = Deployed
    BY <1>4, <1>5, <2>1 DEF Running, CodeInv
  <2>3. written = Wanted
    BY <1>4, <1>5, <2>1 DEF Running, CodeInv, Wanted
  <2> QED  BY <1>2, <2>2, <2>3 DEF Running, OutputIsDeployed
<1>6. CASE ~withDependencies
  <2>1. DirectModels(root) \subseteq generatedFiles /\ written = generatedFiles
        /\ generatedFiles \subseteq DirectModels(root)
        /\ \A m \in written : seen[m] = accessors
    BY <1>1, <1>6 DEF Running, CodeInv
  <2>2. written = Wanted  BY <1>6, <2>1 DEF Wanted, Running
  <2> QED  BY <1>2, <1>4, <2>1, <2>2 DEF Running, OutputIsDeployed
<1> QED  BY <1>2, <1>5, <1>6

(* An interface model as the input is through in one step. *)
LEMMA StartDone ==
  ASSUME TypeOK, Fresh, Start, root \in Fidl
  PROVE  phase' = "done" /\ OutputIsDeployed'
<1>1. /\ root' = root /\ withDependencies' = withDependencies /\ phase' = "done"
      /\ GenerateModel(root, models') /\ models' = Needed(graph, root) \cap Fidl
      /\ root \in models'
  BY DEF Start, input, Needed, Files
<1>2. /\ written' = IF withDependencies THEN models' ELSE {root}
      /\ seen' = [m \in Fidl |-> IF m \in (IF withDependencies THEN models' ELSE {root})
                                   THEN {} ELSE seen[m]]
  BY <1>1 DEF Fresh, GenerateModel, Write
<1>3. written' = Wanted'  BY <1>1, <1>2 DEF Wanted
<1>4. \A m \in written' : m \in Fidl /\ seen'[m] = {}
  <2>1. CASE withDependencies  BY <1>1, <1>2, <2>1
  <2>2. CASE ~withDependencies  BY <1>2, <2>2
  <2> QED  BY <2>1, <2>2
<1> QED  BY <1>1, <1>3, <1>4 DEF OutputIsDeployed

-----------------------------------------------------------------------------
LEMMA InitInv == Init => GeneratorInv
BY DEF Init, GeneratorInv, Fresh, OutputIsDeployed

LEMMA RunningInv ==
  GeneratorInv <=> /\ phase = "start" => Fresh
                   /\ phase \in {"deploying", "crashed"} => Running
                   /\ OutputIsDeployed
BY DEF GeneratorInv, Running

LEMMA NextInv == TypeOK /\ GeneratorInv /\ [Next]_vars => GeneratorInv'
<1> SUFFICES ASSUME TypeOK, GeneratorInv, [Next]_vars  PROVE GeneratorInv'
  OBVIOUS
<1>0. /\ phase = "start" => Fresh
      /\ phase \in {"deploying", "crashed"} => Running
      /\ OutputIsDeployed
  BY RunningInv
<1>a. ASSUME phase' = "deploying", Running'  PROVE GeneratorInv'
  BY <1>a DEF GeneratorInv, Running, OutputIsDeployed
<1>b. ASSUME phase' = "done", OutputIsDeployed'  PROVE GeneratorInv'
  BY <1>b DEF GeneratorInv
<1>1. CASE Start
  <2>1. phase = "start"  BY <1>1 DEF Start
  <2>2. CASE root \in Fidl  BY <1>0, <1>1, <1>b, <2>1, <2>2, StartDone
  <2>3. CASE root \notin Fidl
    <3>1. phase' = "deploying"  BY <1>1, <2>3 DEF Start
    <3> QED  BY <1>0, <1>1, <1>a, <2>1, <2>3, <3>1, StartRunning
  <2> QED  BY <2>2, <2>3
<1>2. CASE InsertAccessors
  <2>1. phase = "deploying" /\ phase' = "deploying"  BY <1>2 DEF InsertAccessors, In
  <2> QED  BY <1>0, <1>2, <1>a, <2>1, InsertRunning
<1>3. CASE CallDeployment
  <2>1. phase = "deploying" /\ phase' = "deploying"  BY <1>3 DEF CallDeployment, In
  <2> QED  BY <1>0, <1>3, <1>a, <2>1, CallRunning
<1>4. CASE Overflow
  <2>1. /\ phase = "deploying" /\ phase' = "crashed"
        /\ UNCHANGED <<graph, root, withDependencies, models, deployments, stack,
                       accessors, generatedFiles, written, seen, visited>>
        /\ Deployed' = Deployed /\ Reached' = Reached
    BY <1>4, SameMaps DEF Overflow, In, input, maps, code
  <2>2. StackInv'
    BY <1>0, <2>1 DEF Running, StackInv, CallInv, DirectModels, DirectDeployments
  <2>3. VisitedInv'
    BY <1>0, <2>1
    DEF Running, VisitedInv, WillInsert, WillCall, DirectModels, DirectDeployments
  <2>4. CodeInv'
    BY <1>0, <2>1 DEF Running, CodeInv, WillGenerate, DirectModels
  <2> QED  BY <1>0, <2>1, <2>2, <2>3, <2>4 DEF Running, GeneratorInv, OutputIsDeployed
<1>5. CASE StartModels
  <2>1. phase = "deploying" /\ phase' = "deploying"  BY <1>5 DEF StartModels, In
  <2> QED  BY <1>0, <1>5, <1>a, <2>1, StartModelsRunning
<1>6. CASE GenerateModels
  <2>1. phase = "deploying" /\ phase' = "deploying"  BY <1>6 DEF GenerateModels, In
  <2> QED  BY <1>0, <1>6, <1>a, <2>1, GenerateRunning
<1>7. CASE Return
  <2>1. phase = "deploying"  BY <1>7 DEF Return, In
  <2>2. CASE Len(stack) = 1  BY <1>0, <1>7, <1>b, <2>1, <2>2, ReturnDone
  <2>3. CASE Len(stack) # 1
    <3>1. phase' = "deploying"  BY <1>7, <2>1, <2>3 DEF Return
    <3> QED  BY <1>0, <1>7, <1>a, <2>1, <2>3, <3>1, ReturnRunning
  <2> QED  BY <2>2, <2>3
<1>8. CASE UNCHANGED vars
  <2>1. /\ UNCHANGED <<graph, root, withDependencies, models, deployments, phase, stack,
                       accessors, generatedFiles, written, seen, visited>>
        /\ Deployed' = Deployed /\ Reached' = Reached /\ Wanted' = Wanted
    BY <1>8, SameMaps DEF vars, input, maps, code
  <2>2. StackInv => StackInv'
    BY <2>1 DEF StackInv, CallInv, DirectModels, DirectDeployments
  <2>3. VisitedInv => VisitedInv'
    BY <2>1 DEF VisitedInv, WillInsert, WillCall, DirectModels, DirectDeployments
  <2>4. CodeInv => CodeInv'
    BY <2>1 DEF CodeInv, WillGenerate, DirectModels
  <2>5. Fresh => Fresh'  BY <2>1 DEF Fresh
  <2>6. OutputIsDeployed => OutputIsDeployed'  BY <2>1 DEF OutputIsDeployed
  <2> QED  BY <2>1, <2>2, <2>3, <2>4, <2>5, <2>6 DEF GeneratorInv
<1> QED  BY <1>1, <1>2, <1>3, <1>4, <1>5, <1>6, <1>7, <1>8 DEF Next

(* The inductive invariant: the calls, the deployments visited, the accessors *)
(* and the code fit together at every step, also of a recursion without end.  *)
THEOREM GeneratorInvariant == Spec => []GeneratorInv
<1>1. Spec => []TypeOK  BY GeneratorType
<1> QED  BY <1>1, InitInv, NextInv, PTL DEF Spec

(* FrancaGenerator.doGenerate(): when it is through, the models that were     *)
(* asked for are written and none was written last with an accessor missing.  *)
THEOREM GeneratorOutput == Spec => []OutputIsDeployed
<1>1. GeneratorInv => OutputIsDeployed  BY DEF GeneratorInv
<1> QED  BY <1>1, GeneratorInvariant, PTL

-----------------------------------------------------------------------------
(* The depth of the recursion: what a call is for is needed by every call     *)
(* around it.                                                                 *)
LEMMA ImportBelow ==
  ASSUME TypeOK, Nested, stack # <<>>, NEW d \in Imported(graph, top.file),
         NEW i \in 1 .. Len(stack)
  PROVE  d \in Below(stack[i].file)
<1>1. /\ Len(stack) \in Nat \ {0} /\ top = stack[Len(stack)]
      /\ graph \in [Files -> Seq(Files)]
      /\ \A k \in 1 .. Len(stack) : stack[k].file \in Files
  BY TopCall DEF TypeOK, Calls, Deploying, Files
<1>2. Len(stack) \in 1 .. Len(stack) /\ top.file \in Files  BY <1>1
<1>3. d \in Files  BY <1>1, <1>2, ImportedFiles
<1>4. CASE i = Len(stack)
  <2>1. d \in Needed(graph, d)  BY <1>3, NeededRoot
  <2> QED  BY <1>1, <1>4, <2>1 DEF Below
<1>5. CASE i < Len(stack)
  <2>1. top.file \in Below(stack[i].file)  BY <1>1, <1>2, <1>5 DEF Nested
  <2>2. PICK h \in Imported(graph, stack[i].file) : top.file \in Needed(graph, h)
    BY <2>1 DEF Below
  <2>3. h \in Files  BY <1>1, <2>2, ImportedFiles
  <2>4. d \in Needed(graph, h)  BY <1>1, <2>2, <2>3, NeededClosed
  <2> QED  BY <2>2, <2>4 DEF Below
<1> QED  BY <1>1, <1>4, <1>5

(* Where no file needs itself, nothing is below itself. *)
LEMMA NotBelowItself ==
  ASSUME Acyclic(graph), NEW f \in Files
  PROVE  f \notin Below(f)
BY DEF Acyclic, Below

(* A stack with the files of another one, as far as it goes, is nested too. *)
LEMMA SameFilesNested ==
  ASSUME Nested, graph' = graph, Len(stack) \in Nat, Len(stack') \in Nat,
         Len(stack') <= Len(stack),
         \A i \in 1 .. Len(stack') : stack'[i].file = stack[i].file
  PROVE  Nested'
<1>1. \A i \in 1 .. Len(stack') : i \in 1 .. Len(stack)  OBVIOUS
<1>2. ASSUME NEW i \in 1 .. Len(stack'), NEW j \in 1 .. Len(stack'), i < j
      PROVE  stack'[j].file \in UNION {Needed(graph', h) : h \in Imported(graph', stack'[i].file)}
  <2>1. stack[j].file \in UNION {Needed(graph, h) : h \in Imported(graph, stack[i].file)}
    BY <1>1, <1>2 DEF Nested, Below
  <2>2. stack'[j].file = stack[j].file /\ stack'[i].file = stack[i].file  OBVIOUS
  <2> QED  BY <2>1, <2>2
<1> QED  BY <1>2 DEF Nested, Below

LEMMA CallNested ==
  ASSUME TypeOK, StackInv, Nested, CallDeployment
  PROVE  Nested' /\ Len(stack') = Len(stack) + 1
<1> DEFINE n == Len(stack)
<1>1. /\ n \in Nat \ {0} /\ stack # <<>> /\ top = stack[n] /\ top.stage = "deployments"
      /\ top \in Calls /\ graph' = graph /\ withDependencies \in BOOLEAN
  BY TopCall DEF CallDeployment, In, input, TypeOK
<1>2. PICK d \in top.todo :
        stack' = Append(Goto("deployments", top.todo \ {d}), Call(d, withDependencies))
  BY DEF CallDeployment
<1>3. top.todo \ {d} \in SUBSET Entries("deployments") /\ "deployments" \in Stages
      /\ d \in Deploying
  BY <1>1 DEF Calls, Entries, Stages
<1>4. d \in Imported(graph, top.file)
  <2>1. CallInv(top)  BY <1>1 DEF StackInv
  <2> QED  BY <1>1, <2>1 DEF CallInv, DirectDeployments
<1> DEFINE g == Goto("deployments", top.todo \ {d})
<1>5. g \in Seq(Calls) /\ Len(g) = n /\ \A i \in 1 .. n : g[i].file = stack[i].file
  BY <1>1, <1>3, GotoStack
<1>6. stack' = Append(g, Call(d, withDependencies))  BY <1>2
<1>7. Call(d, withDependencies).file = d  BY DEF Call
<1> HIDE DEF g, n
<1>8. /\ Len(stack') = n + 1 /\ stack'[n + 1].file = d
      /\ \A i \in 1 .. n : stack'[i].file = stack[i].file
  <2>1. /\ Len(stack') = Len(g) + 1 /\ stack'[Len(g) + 1] = Call(d, withDependencies)
        /\ \A i \in 1 .. Len(g) : stack'[i] = g[i]
    BY <1>1, <1>3, <1>5, <1>6, PushCall
  <2> QED  BY <1>5, <1>7, <2>1
<1>9. ASSUME NEW i \in 1 .. n + 1, NEW j \in 1 .. n + 1, i < j
      PROVE  stack'[j].file \in Below(stack'[i].file)
  <2>1. i \in 1 .. n /\ (j \in 1 .. n \/ j = n + 1)  BY <1>1, <1>9
  <2>2. CASE j = n + 1
    <3>1. d \in Below(stack[i].file)  BY <1>1, <1>4, <2>1, ImportBelow DEF n
    <3> QED  BY <1>8, <2>1, <2>2, <3>1
  <2>3. CASE j \in 1 .. n
    <3>1. stack[j].file \in Below(stack[i].file)  BY <1>9, <2>1, <2>3 DEF Nested, n
    <3> QED  BY <1>8, <2>1, <2>3, <3>1
  <2> QED  BY <2>1, <2>2, <2>3
<1>10. Nested'  BY <1>1, <1>8, <1>9 DEF Nested, Below
<1> QED  BY <1>8, <1>10 DEF n

LEMMA InitRecursion == Init => RecursionInv
BY DEF Init, RecursionInv

(* A step that only moves the innermost call on. *)
LEMMA GotoNested ==
  ASSUME TypeOK, Nested, stack # <<>>, graph' = graph,
         NEW s \in Stages, NEW T \in SUBSET Entries(s), stack' = Goto(s, T)
  PROVE  Nested' /\ Len(stack') = Len(stack)
<1>1. Len(stack) \in Nat \ {0} /\ Len(stack') = Len(stack)
      /\ \A i \in 1 .. Len(stack) : stack'[i].file = stack[i].file
  BY TopCall, GotoStack
<1> QED  BY <1>1, SameFilesNested

LEMMA NextRecursion ==
  ASSUME TypeOK, GeneratorInv, RecursionInv, [Next]_vars
  PROVE  RecursionInv'
<1>d. deployments' \subseteq Fdepl \cup {root'}
  <2>1. deployments \subseteq Fdepl \cup {root}  BY DEF RecursionInv
  <2>2. CASE Start  BY <2>2 DEF Start, input
  <2>3. CASE ~Start
    <3>1. deployments' = deployments /\ root' = root
      BY <2>3 DEF Next, vars, input, maps, InsertAccessors, CallDeployment, Overflow,
                  StartModels, GenerateModels, Return
    <3> QED  BY <2>1, <3>1
  <2> QED  BY <2>2, <2>3
<1>a. ASSUME phase' = "deploying", Nested', Len(stack') <= MaxDepth  PROVE RecursionInv'
  BY <1>a, <1>d DEF RecursionInv
<1>0. ASSUME NEW st \in Stages, In(st)
      PROVE  /\ phase = "deploying" /\ stack # <<>> /\ top \in Calls /\ top.file \in Deploying
             /\ top.todo \in SUBSET Entries(st) /\ Nested /\ Len(stack) <= MaxDepth
             /\ Len(stack) \in Nat \ {0} /\ StackInv
  BY <1>0, TopCall DEF In, Calls, RecursionInv, GeneratorInv
<1>s. "accessors" \in Stages /\ "deployments" \in Stages /\ "models" \in Stages
  BY DEF Stages
<1>1. CASE Start
  <2>1. CASE root \in Fidl
    <3>1. phase' = "done"  BY <1>1, <2>1 DEF Start
    <3> QED  BY <1>d, <3>1 DEF RecursionInv
  <2>2. CASE root \notin Fidl
    <3>1. /\ phase' = "deploying" /\ stack' = <<Call(root, TRUE)>>
          /\ root \in Deploying
      BY <1>1, <2>2 DEF Start, TypeOK, Readable, Deploying
    <3>2. Len(stack') = 1  BY <3>1
    <3>3. Nested'
      <4>1. \A i, j \in 1 .. Len(stack') : ~(i < j)
        <5>1. \A k : k = 1 => \A i, j \in 1 .. k : ~(i < j)  OBVIOUS
        <5> QED  BY <3>2, <5>1
      <4> QED  BY <4>1 DEF Nested
    <3>4. Len(stack') <= MaxDepth  BY <3>2
    <3> QED  BY <1>a, <3>1, <3>3, <3>4
  <2> QED  BY <2>1, <2>2
<1>2. CASE InsertAccessors
  <2>1. /\ In("accessors") /\ graph' = graph /\ phase' = phase
        /\ stack' = Goto("deployments", DirectDeployments(top.file))
        /\ DirectDeployments(top.file) \in SUBSET Entries("deployments")
    BY <1>2 DEF InsertAccessors, input, DirectDeployments, Entries, TypeOK
  <2> QED  BY <1>0, <1>a, <1>s, <2>1, GotoNested
<1>3. CASE CallDeployment
  <2>1. In("deployments") /\ phase' = phase /\ Len(stack) < MaxDepth
    BY <1>3 DEF CallDeployment
  <2>2. Nested' /\ Len(stack') = Len(stack) + 1
    BY <1>0, <1>3, <1>s, <2>1, CallNested
  <2>3. phase' = "deploying" /\ Len(stack') <= MaxDepth  BY <1>0, <1>s, <2>1, <2>2
  <2> QED  BY <1>a, <2>2, <2>3
<1>4. CASE Overflow
  <2>1. /\ In("deployments") /\ graph' = graph /\ stack' = stack /\ phase' = "crashed"
        /\ top.todo # {} /\ Len(stack) = MaxDepth
    BY <1>4 DEF Overflow, input
  <2>2. Nested'
    BY <1>0, <1>s, <2>1 DEF Nested, Below
  <2>3. top' = top  BY <2>1 DEF top
  <2> QED  BY <1>d, <2>1, <2>2, <2>3 DEF RecursionInv, In
<1>5. CASE StartModels
  <2> DEFINE T == IF top.mustGenerate THEN DirectModels(top.file) ELSE {}
  <2>1. /\ In("deployments") /\ graph' = graph /\ phase' = phase
        /\ stack' = Goto("models", T) /\ T \in SUBSET Entries("models")
    BY <1>5 DEF StartModels, input, DirectModels, Entries, TypeOK
  <2> HIDE DEF T
  <2> QED  BY <1>0, <1>a, <1>s, <2>1, GotoNested
<1>6. CASE GenerateModels
  <2>1. PICK m \in top.todo : stack' = Goto("models", top.todo \ {m})
    BY <1>6 DEF GenerateModels
  <2>2. In("models") /\ graph' = graph /\ phase' = phase
    BY <1>6 DEF GenerateModels, input
  <2>3. top.todo \ {m} \in SUBSET Entries("models")  BY <1>0, <1>s, <2>2
  <2> QED  BY <1>0, <1>a, <1>s, <2>1, <2>2, <2>3, GotoNested
<1>7. CASE Return
  <2>1. /\ In("models") /\ graph' = graph
        /\ stack' = SubSeq(stack, 1, Len(stack) - 1) /\ phase' \in {"done", phase}
    BY <1>7 DEF Return, input
  <2>2. CASE phase' = "done"  BY <1>d, <2>2 DEF RecursionInv
  <2>3. CASE phase' = phase
    <3>1. Len(stack') = Len(stack) - 1 /\ \A i \in 1 .. Len(stack) - 1 : stack'[i] = stack[i]
      BY <1>0, <1>s, <2>1, PopCall DEF TypeOK
    <3>2. Len(stack) \in Nat /\ Len(stack') \in Nat /\ Len(stack') <= Len(stack)
          /\ \A i \in 1 .. Len(stack') : stack'[i].file = stack[i].file
      BY <1>0, <1>s, <2>1, <3>1
    <3>3. Nested'  BY <1>0, <1>s, <2>1, <3>2, SameFilesNested
    <3>4. phase' = "deploying" /\ Len(stack') <= MaxDepth  BY <1>0, <1>s, <2>1, <2>3, <3>1
    <3> QED  BY <1>a, <3>3, <3>4
  <2> QED  BY <2>1, <2>2, <2>3
<1>8. CASE UNCHANGED vars
  <2>1. graph' = graph /\ stack' = stack /\ phase' = phase  BY <1>8 DEF vars, input
  <2>2. Nested => Nested'  BY <2>1 DEF Nested, Below
  <2>3. top' = top  BY <2>1 DEF top
  <2> QED  BY <1>d, <2>1, <2>2, <2>3 DEF RecursionInv
<1> QED  BY <1>1, <1>2, <1>3, <1>4, <1>5, <1>6, <1>7, <1>8 DEF Next

(* Out of stack without a cycle: the files of the calls and the one to be     *)
(* called are all different.                                                  *)
LEMMA DeepStack ==
  ASSUME TypeOK, GeneratorInv, RecursionInv, phase = "crashed", Acyclic(graph)
  PROVE  Cardinality(deployments) > MaxDepth
<1> DEFINE n == Len(stack)
<1>1. /\ n \in Nat \ {0} /\ n = MaxDepth /\ stack # <<>> /\ top = stack[n]
      /\ top.stage = "deployments" /\ top.todo # {} /\ Nested /\ StackInv
  BY TopCall DEF RecursionInv, GeneratorInv, StackInv
<1>2. PICK d \in top.todo : TRUE  BY <1>1
<1>3. d \in Imported(graph, top.file) /\ d \in deployments
  <2>1. CallInv(top)  BY <1>1 DEF StackInv
  <2> QED  BY <1>1, <1>2, <2>1 DEF CallInv, DirectDeployments
<1>4. \A i \in 1 .. n : stack[i].file \in deployments /\ d \in Below(stack[i].file)
  BY <1>1, <1>3, ImportBelow DEF StackInv, CallInv, Reached
<1>5. \A i, j \in 1 .. n : i < j => stack[j].file \in Below(stack[i].file)
  BY <1>1 DEF Nested
<1>6. deployments \subseteq Files /\ IsFiniteSet(deployments)
  BY FS_Subset DEF TypeOK, Deploying, Files
<1> HIDE DEF n
<1> DEFINE p == [i \in 1 .. n + 1 |-> IF i = n + 1 THEN d ELSE stack[i].file]
<1>7. \A i \in 1 .. n + 1 : i \in 1 .. n \/ i = n + 1  BY <1>1
<1>8. p \in [1 .. n + 1 -> deployments]  BY <1>3, <1>4, <1>7
<1>9. ASSUME NEW i \in 1 .. n + 1, NEW j \in 1 .. n + 1, i < j
      PROVE  p[j] \in Below(p[i])
  <2>1. i \in 1 .. n /\ i # n + 1  BY <1>1, <1>9
  <2>2. p[i] = stack[i].file  BY <2>1
  <2>3. CASE j = n + 1  BY <1>4, <2>1, <2>2, <2>3
  <2>4. CASE j \in 1 .. n
    <3>1. p[j] = stack[j].file  BY <1>1, <2>4
    <3> QED  BY <1>5, <1>9, <2>1, <2>2, <2>4, <3>1
  <2> QED  BY <1>7, <2>3, <2>4
<1> HIDE DEF p
<1>10. ASSUME NEW i \in 1 .. n + 1, NEW j \in 1 .. n + 1, i < j
       PROVE  p[i] # p[j]
  <2>1. p[j] \in Below(p[i]) /\ p[i] \in Files  BY <1>6, <1>8, <1>9, <1>10
  <2> QED  BY <2>1, NotBelowItself
<1>11. \A i, j \in 1 .. n + 1 : i # j => p[i] # p[j]
  <2>1. \A i, j \in 1 .. n + 1 : i < j \/ j < i \/ i = j  BY <1>1
  <2> QED  BY <1>10, <2>1
<1>12. IsFiniteSet(1 .. n + 1) /\ Cardinality(1 .. n + 1) = n + 1
  <2>1. 1 \in Int /\ n + 1 \in Int /\ ~(1 > n + 1) /\ n + 1 - 1 + 1 = n + 1  BY <1>1
  <2>2. IsFiniteSet(1 .. n + 1)
        /\ Cardinality(1 .. n + 1) = IF 1 > n + 1 THEN 0 ELSE n + 1 - 1 + 1
    BY <2>1, FS_Interval
  <2> QED  BY <2>1, <2>2
<1>13. ~(Cardinality(deployments) < n + 1)
  <2> SUFFICES ASSUME Cardinality(deployments) < n + 1  PROVE FALSE
    OBVIOUS
  <2>1. Cardinality(deployments) < Cardinality(1 .. n + 1)  BY <1>12
  <2> DEFINE D == 1 .. n + 1
  <2>2. IsFiniteSet(D) /\ Cardinality(deployments) < Cardinality(D)
        /\ p \in [D -> deployments]
    BY <1>8, <1>12, <2>1
  <2>3. \A i, j \in D : i # j => p[i] # p[j]  BY <1>11
  <2> HIDE DEF D
  <2> QED  BY <1>6, <2>2, <2>3, FS_PigeonHole
<1>14. Cardinality(deployments) \in Nat  BY <1>6, FS_CardinalityType
<1> QED  BY <1>1, <1>13, <1>14

(* What keeps the recursion off files whose call is under way. *)
THEOREM GeneratorRecursion == Spec => []RecursionInv
<1>1. Spec => [](TypeOK /\ GeneratorInv)  BY GeneratorType, GeneratorInvariant, PTL
<1>2. TypeOK /\ GeneratorInv /\ RecursionInv /\ [Next]_vars => RecursionInv'
  BY NextRecursion
<1> QED  BY <1>1, <1>2, InitRecursion, PTL DEF Spec

(* FrancaGenerator.doGenerateDeployment(), which keeps no record of the calls *)
(* under way: however much stack there is, it is used up only where imports   *)
(* are cyclic or the deployments are more than the calls it holds.            *)
THEOREM GeneratorDepth == Spec => []OverflowNeedsDepth
<1>1. TypeOK /\ GeneratorInv /\ RecursionInv => OverflowNeedsDepth
  BY DeepStack DEF OverflowNeedsDepth
<1> QED  BY <1>1, GeneratorType, GeneratorInvariant, GeneratorRecursion, PTL

(* With room on the stack for one call more than there are deployment files,  *)
(* nothing but a cycle of imports overflows it.                               *)
THEOREM GeneratorOverflow ==
  ASSUME Cardinality(Fdepl) < MaxDepth
  PROVE  Spec => []NoStackOverflow
<1>1. TypeOK /\ GeneratorInv /\ RecursionInv => NoStackOverflow
  <2> SUFFICES ASSUME TypeOK, GeneratorInv, RecursionInv, phase = "crashed", Acyclic(graph)
               PROVE  FALSE
    BY DEF NoStackOverflow
  <2>1. Cardinality(deployments) > MaxDepth  BY DeepStack
  <2>2. deployments \subseteq Fdepl \cup {root}  BY DEF RecursionInv
  <2>3. IsFiniteSet(Fdepl)  BY FS_Subset DEF Files
  <2>4. IsFiniteSet(Fdepl \cup {root})
        /\ Cardinality(Fdepl \cup {root}) \in {Cardinality(Fdepl), Cardinality(Fdepl) + 1}
    BY <2>3, FS_AddElement
  <2>5. IsFiniteSet(deployments)
        /\ Cardinality(deployments) <= Cardinality(Fdepl \cup {root})
    BY <2>2, <2>4, FS_Subset
  <2>6. Cardinality(deployments) \in Nat /\ Cardinality(Fdepl) \in Nat
    BY <2>3, <2>5, FS_CardinalityType
  <2> QED  BY <2>1, <2>4, <2>5, <2>6
<1> QED  BY <1>1, GeneratorType, GeneratorInvariant, GeneratorRecursion, PTL
-----------------------------------------------------------------------------
(* Termination: every turn of a loop, every call and every return leaves less *)
(* to do.                                                                     *)

(* What a loop has still to visit is at most all files. *)
LEMMA TodoFinite ==
  ASSUME NEW T \in SUBSET (Fidl \cup Deploying)
  PROVE  /\ IsFiniteSet(T) /\ Cardinality(T) \in Nat /\ Cardinality(Files) \in Nat
         /\ Cardinality(T) <= Cardinality(Files)
<1>1. IsFiniteSet(Files) /\ T \in SUBSET Files  BY DEF Deploying, Files
<1>2. IsFiniteSet(T) /\ Cardinality(T) <= Cardinality(Files)  BY <1>1, FS_Subset
<1> QED  BY <1>1, <1>2, FS_CardinalityType

LEMMA TodoWithout ==
  ASSUME NEW T \in SUBSET (Fidl \cup Deploying), NEW d \in T
  PROVE  Cardinality(T \ {d}) = Cardinality(T) - 1
BY TodoFinite, FS_RemoveElement

(* What is left of a call, by the loop it is in. *)
LEMMA LeftOfCall ==
  ASSUME NEW c \in Calls
  PROVE  /\ Cardinality(c.todo) \in Nat /\ Cardinality(Files) \in Nat
         /\ Cardinality(c.todo) <= Cardinality(Files)
         /\ CallLeft(c) \in Nat \ {0}
         /\ c.stage = "accessors" =>
              CallLeft(c) = Cardinality(c.todo) + 1 + 2 * (Cardinality(Files) + 1)
         /\ c.stage = "deployments" =>
              CallLeft(c) = Cardinality(c.todo) + 1 + (Cardinality(Files) + 1)
         /\ c.stage = "models" => CallLeft(c) = Cardinality(c.todo) + 1
<1>1. c.todo \in SUBSET (Fidl \cup Deploying) /\ c.stage \in {"accessors", "deployments", "models"}
  BY DEF Calls, Stages
<1> DEFINE n == Cardinality(c.todo)
           k == Cardinality(Files)
<1>2. n \in Nat /\ k \in Nat /\ n <= k  BY <1>1, TodoFinite
<1>3. CallLeft(c) = n + 1 + CASE c.stage = "accessors" -> 2 * (k + 1)
                              [] c.stage = "deployments" -> k + 1 [] c.stage = "models" -> 0
  BY DEF CallLeft
<1> HIDE DEF n, k
<1>4. /\ c.stage = "accessors" => CallLeft(c) = n + 1 + 2 * (k + 1)
      /\ c.stage = "deployments" => CallLeft(c) = n + 1 + (k + 1)
      /\ c.stage = "models" => CallLeft(c) = n + 1
  BY <1>2, <1>3
<1>5. CallLeft(c) \in Nat \ {0}  BY <1>1, <1>2, <1>4
<1> QED  BY <1>2, <1>4, <1>5 DEF n, k

LEMMA CallsLeftType == TypeOK => CallsLeft \in [1 .. MaxDepth -> Nat]
<1> SUFFICES ASSUME TypeOK, NEW i \in 1 .. MaxDepth, i <= Len(stack)
             PROVE  CallLeft(stack[i]) \in Nat
  BY DEF CallsLeft
<1>1. stack \in Seq(Calls)  BY DEF TypeOK
<1>2. stack[i] \in Calls  BY <1>1
<1> QED  BY <1>2, LeftOfCall

(* The innermost call got on, with or without a call on top of it. *)
LEMMA CallGotOn ==
  ASSUME TypeOK, stack # <<>>, Len(stack) <= MaxDepth, TypeOK', Len(stack) <= Len(stack'),
         \A i \in 1 .. Len(stack) : i < Len(stack) => stack'[i] = stack[i],
         CallLeft(stack'[Len(stack)]) < CallLeft(top)
  PROVE  Precedes(CallsLeft', CallsLeft)
<1> DEFINE k == Len(stack)
<1>1. k \in 1 .. MaxDepth /\ top = stack[k]  BY TopCall
<1>2. Len(stack') \in Nat  BY DEF TypeOK
<1>3. CallsLeft' = [i \in 1 .. MaxDepth |-> IF i <= Len(stack') THEN CallLeft(stack'[i]) ELSE 0]
  BY DEF CallsLeft
<1> HIDE DEF k
<1>4. CallsLeft'[k] < CallsLeft[k]  BY <1>1, <1>2, <1>3 DEF CallsLeft, k
<1>5. \A j \in 1 .. MaxDepth : j < k => CallsLeft'[j] = CallsLeft[j]
  BY <1>1, <1>2, <1>3 DEF CallsLeft, k
<1> QED  BY <1>1, <1>4, <1>5 DEF Precedes, CallsLeft

(* It returned. *)
LEMMA CallReturned ==
  ASSUME TypeOK, stack # <<>>, Len(stack) <= MaxDepth,
         stack' = SubSeq(stack, 1, Len(stack) - 1)
  PROVE  Precedes(CallsLeft', CallsLeft)
<1> DEFINE k == Len(stack)
<1>1. k \in 1 .. MaxDepth /\ top = stack[k] /\ top \in Calls  BY TopCall
<1>2. Len(stack') = k - 1 /\ \A i \in 1 .. k - 1 : stack'[i] = stack[i]
  BY PopCall DEF TypeOK
<1>3. CallsLeft' = [i \in 1 .. MaxDepth |-> IF i <= Len(stack') THEN CallLeft(stack'[i]) ELSE 0]
  BY DEF CallsLeft
<1>4. CallLeft(stack[k]) \in Nat \ {0}  BY <1>1, LeftOfCall
<1> HIDE DEF k
<1>5. CallsLeft'[k] < CallsLeft[k]  BY <1>1, <1>2, <1>3, <1>4 DEF CallsLeft, k
<1>6. \A j \in 1 .. MaxDepth : j < k => CallsLeft'[j] = CallsLeft[j]
  BY <1>1, <1>2, <1>3 DEF CallsLeft, k
<1> QED  BY <1>1, <1>5, <1>6 DEF Precedes, CallsLeft

(* A loop was left for another one with at most all files to visit, or an entry *)
(* was visited.                                                                 *)
LEMMA GotoLeft ==
  ASSUME TypeOK, stack # <<>>, NEW s \in Stages, NEW T \in SUBSET Entries(s),
         \/ top.stage = "accessors" /\ s = "deployments"
         \/ top.stage = "deployments" /\ s = "models"
         \/ top.stage = s /\ \E d \in top.todo : T = top.todo \ {d}
  PROVE  CallLeft(Goto(s, T)[Len(stack)]) < CallLeft(top)
<1> DEFINE c == Goto(s, T)[Len(stack)]
           n == Cardinality(top.todo)
           m == Cardinality(T)
           k == Cardinality(Files)
<1>1. Len(stack) \in 1 .. Len(stack) /\ top \in Calls  BY TopCall
<1>2. Goto(s, T) \in Seq(Calls) /\ Len(Goto(s, T)) = Len(stack)  BY GotoStack
<1>3. c.stage = s /\ c.todo = T  BY <1>1, GotoStack
<1>4. c \in Calls  BY <1>1, <1>2
<1> HIDE DEF c
<1>5. /\ n \in Nat /\ k \in Nat
      /\ top.stage = "accessors" => CallLeft(top) = n + 1 + 2 * (k + 1)
      /\ top.stage = "deployments" => CallLeft(top) = n + 1 + (k + 1)
      /\ top.stage = "models" => CallLeft(top) = n + 1
  BY <1>1, LeftOfCall
<1>6. /\ m \in Nat /\ m <= k
      /\ c.stage = "accessors" => CallLeft(c) = m + 1 + 2 * (k + 1)
      /\ c.stage = "deployments" => CallLeft(c) = m + 1 + (k + 1)
      /\ c.stage = "models" => CallLeft(c) = m + 1
  BY <1>3, <1>4, LeftOfCall
<1>7. (\E d \in top.todo : T = top.todo \ {d}) => m = n - 1
  <2>1. top.todo \in SUBSET (Fidl \cup Deploying)  BY <1>1 DEF Calls
  <2> QED  BY <2>1, TodoWithout
<1> HIDE DEF n, m, k
<1>8. CASE top.stage = "accessors" /\ s = "deployments"  BY <1>3, <1>5, <1>6, <1>8 DEF c
<1>9. CASE top.stage = "deployments" /\ s = "models"  BY <1>3, <1>5, <1>6, <1>9 DEF c
<1>10. CASE top.stage = s /\ \E d \in top.todo : T = top.todo \ {d}
  <2>1. m = n - 1  BY <1>7, <1>10
  <2>2. s \in {"accessors", "deployments", "models"}  BY DEF Stages
  <2>3. CallLeft(c) < CallLeft(top)  BY <1>3, <1>5, <1>6, <1>10, <2>1, <2>2
  <2> QED  BY <2>3 DEF c
<1> QED  BY <1>8, <1>9, <1>10

LEMMA NextShrinks ==
  ASSUME TypeOK, RecursionInv, TypeOK', Next, phase = "deploying", phase' = "deploying"
  PROVE  Precedes(CallsLeft', CallsLeft)
<1>1. Len(stack) <= MaxDepth  BY DEF RecursionInv
<1>2. ASSUME NEW s \in Stages, NEW T \in SUBSET Entries(s), stack # <<>>, stack' = Goto(s, T),
             \/ top.stage = "accessors" /\ s = "deployments"
             \/ top.stage = "deployments" /\ s = "models"
             \/ top.stage = s /\ \E d \in top.todo : T = top.todo \ {d}
      PROVE  Precedes(CallsLeft', CallsLeft)
  <2>1. CallLeft(stack'[Len(stack)]) < CallLeft(top)  BY <1>2, GotoLeft
  <2>2. Len(stack') = Len(stack)
        /\ \A i \in 1 .. Len(stack) : i < Len(stack) => stack'[i] = stack[i]
    BY <1>2, GotoStack
  <2>3. Len(stack) <= Len(stack')  BY <1>2, <2>2, TopCall
  <2> QED  BY <1>1, <1>2, <2>1, <2>2, <2>3, CallGotOn
<1>3. stack # <<>> => top.stage \in Stages /\ top.todo \subseteq Entries(top.stage)
  BY TopCall DEF Calls
<1>4. CASE Start  BY <1>4 DEF Start
<1>5. CASE InsertAccessors
  <2>1. stack # <<>> /\ top.stage = "accessors"  BY <1>5 DEF InsertAccessors, In
  <2>2. DirectDeployments(top.file) \in SUBSET Entries("deployments") /\ "deployments" \in Stages
    BY DEF DirectDeployments, TypeOK, Entries, Stages
  <2> QED  BY <1>2, <1>5, <2>1, <2>2 DEF InsertAccessors
<1>6. CASE CallDeployment
  <2>1. stack # <<>> /\ top.stage = "deployments"  BY <1>6 DEF CallDeployment, In
  <2>2. PICK d \in top.todo :
          stack' = Append(Goto("deployments", top.todo \ {d}), Call(d, withDependencies))
    BY <1>6 DEF CallDeployment
  <2> DEFINE T == top.todo \ {d}
             t == Goto("deployments", T)
  <2>3. T \in SUBSET Entries("deployments") /\ "deployments" \in Stages
    BY <1>3, <2>1 DEF Stages
  <2>4. d \in Deploying  BY <1>3, <2>1 DEF Entries
  <2>5. t \in Seq(Calls) /\ Len(t) = Len(stack)
        /\ \A i \in 1 .. Len(stack) : i < Len(stack) => t[i] = stack[i]
    BY <2>1, <2>3, GotoStack
  <2>6. CallLeft(t[Len(stack)]) < CallLeft(top)  BY <2>1, <2>3, GotoLeft
  <2> HIDE DEF t
  <2>7. stack' = Append(t, Call(d, withDependencies)) /\ withDependencies \in BOOLEAN
    BY <2>2 DEF t, TypeOK
  <2>8. Len(stack') = Len(t) + 1 /\ \A i \in 1 .. Len(t) : stack'[i] = t[i]
    BY <2>4, <2>5, <2>7, PushCall
  <2>9. Len(stack) \in 1 .. Len(stack) /\ Len(stack) <= Len(stack')
    BY <2>1, <2>5, <2>8, TopCall
  <2>10. \A i \in 1 .. Len(stack) : i < Len(stack) => stack'[i] = stack[i]
    BY <2>5, <2>8
  <2>11. CallLeft(stack'[Len(stack)]) < CallLeft(top)  BY <2>5, <2>6, <2>8, <2>9
  <2> QED  BY <1>1, <2>1, <2>9, <2>10, <2>11, CallGotOn
<1>7. CASE Overflow  BY <1>7 DEF Overflow
<1>8. CASE StartModels
  <2> DEFINE M == IF top.mustGenerate THEN DirectModels(top.file) ELSE {}
  <2>1. stack # <<>> /\ top.stage = "deployments"  BY <1>8 DEF StartModels, In
  <2>2. M \in SUBSET Entries("models") /\ "models" \in Stages
    BY DEF DirectModels, TypeOK, Entries, Stages
  <2>3. stack' = Goto("models", M)  BY <1>8 DEF StartModels
  <2> HIDE DEF M
  <2> QED  BY <1>2, <2>1, <2>2, <2>3
<1>9. CASE GenerateModels
  <2>1. stack # <<>> /\ top.stage = "models"  BY <1>9 DEF GenerateModels, In
  <2>2. PICK m \in top.todo : stack' = Goto("models", top.todo \ {m})
    BY <1>9 DEF GenerateModels
  <2>3. top.todo \ {m} \in SUBSET Entries("models") /\ "models" \in Stages
    BY <1>3, <2>1 DEF Stages
  <2> QED  BY <1>2, <2>1, <2>2, <2>3
<1>10. CASE Return
  <2>1. stack # <<>> /\ stack' = SubSeq(stack, 1, Len(stack) - 1)  BY <1>10 DEF Return, In
  <2> QED  BY <1>1, <2>1, CallReturned
<1> QED  BY <1>4, <1>5, <1>6, <1>7, <1>8, <1>9, <1>10 DEF Next

(* FrancaGenerator.doGenerateDeployment() does not go round for ever: what the *)
(* calls under way have left becomes less with every step, and NoEndlessDescent *)
(* says that it cannot do so endlessly.                                        *)
THEOREM GeneratorShrinks == Spec => GenerationShrinks
<1>1. TypeOK /\ TypeOK' /\ RecursionInv /\ [Next]_vars
        => [phase = "deploying" /\ phase' = "deploying" => Precedes(CallsLeft', CallsLeft)]_vars
  BY NextShrinks
<1>2. Spec => [](TypeOK /\ RecursionInv)  BY GeneratorType, GeneratorRecursion, PTL
<1> QED  BY <1>1, <1>2, CallsLeftType, PTL DEF Spec, GenerationShrinks
=============================================================================
