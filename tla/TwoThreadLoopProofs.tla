-------------------------- MODULE TwoThreadLoopProofs --------------------------
(* Theorems about TwoThreadLoop, for any objects and any bounds. *)
EXTENDS TwoThreadLoop, TLAPS

USE TwoThreadLoopAssumption DEF Objects

(* The library's calls and the environment keep the types. *)
LEMMA LibraryType == ASSUME TypeOK, Library PROVE TypeOK'
<1> USE DEF TypeOK, objVars, flagVars, pollVars, roundVars, queueVars, envVars
<1>1. CASE \E o \in Objects : Register(o) \/ Unregister(o)
  <2>1. CASE \E o \in Objects : Register(o)
    BY <2>1 DEF Register
  <2>2. CASE \E o \in Objects : Unregister(o)
    <3>1. isBroken' \in BOOLEAN /\ wake' \in BOOLEAN
      BY <2>2, Zenon DEF Unregister
    <3>2. life' \in [Objects -> {"new", "live", "flagged", "freed"}]
      BY <2>2 DEF Unregister
    <3> QED
      BY <2>2, <3>1, <3>2 DEF Unregister
  <2> QED
    BY <1>1, <2>1, <2>2
<1>2. CASE \E o \in Sources \cup Watches : Arrive(o)
  BY <1>2 DEF Arrive
<1>3. CASE \E t \in Timeouts : Elapse(t)
  BY <1>3 DEF Elapse
<1> QED
  BY <1>1, <1>2, <1>3 DEF Library

(* The loop's thread keeps the types. *)
LEMMA LoopType == ASSUME TypeOK, LoopStep PROVE TypeOK'
<1> USE DEF TypeOK, objVars, flagVars, pollVars, roundVars, queueVars, envVars,
            unchangedByLoop, LoopAt
<1>1. CASE Run \/ Reset \/ Iterate \/ Leave \/ Relock
  BY <1>1 DEF Run, Reset, Iterate, Leave, Relock
<1>2. CASE Reap
  BY <1>2 DEF Reap
<1>3. CASE Prepare
  BY <1>3 DEF Prepare, WithData, Unelapsed
<1>4. CASE PollCopy
  BY <1>4 DEF PollCopy
<1>5. CASE Poll
  <2>1. ReadyFds \subseteq Watches /\ Unelapsed \subseteq Timeouts
    BY DEF ReadyFds, Unelapsed
  <2> QED
    BY <1>5, <2>1 DEF Poll
<1>6. CASE Check
  BY <1>6 DEF Check, WithData
<1>7. CASE Push
  BY <1>7 DEF Push, Notified, QueueAt
<1> QED
  BY <1>1, <1>2, <1>3, <1>4, <1>5, <1>6, <1>7 DEF LoopStep

(* The queue's thread keeps the types. *)
LEMMA QueueType == ASSUME TypeOK, QueueStep \/ SpuriousWakeup PROVE TypeOK'
<1> USE DEF TypeOK, objVars, flagVars, pollVars, roundVars, queueVars, envVars,
            unchangedByQueue, QueueAt, Kinds
<1>1. CASE QueueRun \/ QueueEnter \/ SpuriousWakeup \/ BeginRound \/ EndRound
  BY <1>1 DEF QueueRun, QueueEnter, SpuriousWakeup, BeginRound, EndRound
<1>2. CASE BeginExternal
  BY <1>2 DEF BeginExternal
<1>3. CASE \E kind \in Kinds, o \in Objects : Visit(kind, o)
  BY <1>3 DEF Visit
<1>4. CASE Return
  <2>1. pending' \in [Sources \cup Watches -> Nat]
    BY <1>4 DEF Return
  <2> QED
    BY <1>4, <2>1 DEF Return
<1>5. CASE EndTimeouts \/ EndWatches \/ EndExternal
  BY <1>5 DEF EndTimeouts, EndWatches, EndExternal, RoundOver
<1> QED
  BY <1>1, <1>2, <1>3, <1>4, <1>5 DEF QueueStep

(* The test keeps the types. *)
LEMMA TestType == ASSUME TypeOK, TestStep PROVE TypeOK'
<1> USE DEF TypeOK, objVars, flagVars, pollVars, roundVars, queueVars, envVars,
            unchangedByTest, TestAt, Goto
<1>1. CASE StopLoop
  BY <1>1 DEF StopLoop
<1>2. CASE StopQueue("stop", "spin") \/ StopQueue("stop2", "both")
  BY <1>2 DEF StopQueue, Notified, QueueAt
<1>3. CASE Available \/ UnregisterService \/ Spin \/ CheckQueue \/ WaitBoth
  BY <1>3 DEF Available, UnregisterService, Spin, CheckQueue, WaitBoth
<1>4. CASE JoinLoop \/ JoinQueue \/ Delete
  BY <1>4 DEF JoinLoop, JoinQueue, Delete
<1> QED
  BY <1>1, <1>2, <1>3, <1>4 DEF TestStep

(* Every variable keeps its type, whatever the three threads do. *)
THEOREM TwoThreadType == Spec => []TypeOK
<1>1. Init => TypeOK
  <2> SUFFICES ASSUME Init PROVE TypeOK
    OBVIOUS
  <2>1. pending \in [Sources \cup Watches -> Nat] /\ supply \in [Sources \cup Watches -> Nat]
    BY DEF Init
  <2>2. life \in [Objects -> {"new", "live", "flagged", "freed"}]
    BY DEF Init
  <2>3. /\ hasToStop \in BOOLEAN /\ running \in BOOLEAN /\ wake \in BOOLEAN
        /\ isBroken \in BOOLEAN /\ eqRunning \in BOOLEAN /\ isAvailable \in BOOLEAN
    BY Zenon DEF Init
  <2>4. lpc \in LoopAt /\ qpc \in QueueAt /\ tpc \in TestAt
    BY DEF Init, LoopAt, QueueAt, TestAt
  <2>5. /\ queued \in 0 .. MaxQueue /\ turn \in 0 .. MaxQueue /\ ext \in {"loop", "queue", None}
        /\ left \subseteq Objects /\ executing \in Objects \cup {None}
    BY DEF Init
  <2>6. /\ toDispatch \subseteq Objects /\ elapsed \subseteq Timeouts
        /\ polled \subseteq Watches /\ timed \subseteq Timeouts /\ ready \subseteq Watches
        /\ due \subseteq Timeouts
    BY DEF Init
  <2> QED
    BY <2>1, <2>2, <2>3, <2>4, <2>5, <2>6 DEF TypeOK
<1>2. TypeOK /\ [Next]_vars => TypeOK'
  <2> SUFFICES ASSUME TypeOK, [Next]_vars PROVE TypeOK'
    OBVIOUS
  <2>1. CASE UNCHANGED vars
    BY <2>1 DEF vars, objVars, flagVars, pollVars, roundVars, queueVars, envVars, TypeOK
  <2> QED
    BY <2>1, LibraryType, LoopType, QueueType, TestType DEF Next
<1> QED
  BY <1>1, <1>2, PTL DEF Spec

--------------------------------------------------------------------------------
(* externalIterationMutex_ belongs to the thread that is in its part. *)
MutexOwned ==
  /\ (ext = "loop") <=> InIteration
  /\ (ext = "queue") <=> InExternal

(* What the round has still to visit, or is dispatching, is in the sets. *)
RoundInSets ==
  /\ left \subseteq toDispatch
  /\ executing # None => InExternal /\ executing \in toDispatch

(* Nothing in the sets is deleted before the two threads have been joined. *)
SetsAlive ==
  /\ tpc # "done" => \A o \in toDispatch : life[o] \in {"live", "flagged"}
  /\ tpc \in {"joinQueue", "delete", "done"} => lpc = "done"
  /\ tpc \in {"delete", "done"} => qpc = "done"

Inv == MutexOwned /\ RoundInSets /\ SetsAlive

(* A registered object that becomes unregistered may stay in the sets. *)
LEMMA LibraryInv == ASSUME TypeOK, Inv, Library PROVE Inv'
<1> USE DEF TypeOK, Inv, MutexOwned, InIteration, InExternal, RoundInSets, SetsAlive,
            objVars, flagVars, pollVars, roundVars, queueVars, envVars, Live
<1>1. CASE \E o \in Objects : Register(o) \/ Unregister(o)
  BY <1>1 DEF Register, Unregister
<1>2. CASE \E o \in Sources \cup Watches : Arrive(o)
  BY <1>2 DEF Arrive
<1>3. CASE \E t \in Timeouts : Elapse(t)
  BY <1>3 DEF Elapse
<1> QED
  BY <1>1, <1>2, <1>3 DEF Library

(* The loop's thread deletes only what is in no set, and adds what is live.    *)
LEMMA LoopInv == ASSUME TypeOK, Inv, LoopStep PROVE Inv'
<1> USE DEF TypeOK, Inv, MutexOwned, InIteration, InExternal, RoundInSets, SetsAlive,
            objVars, flagVars, pollVars, roundVars, queueVars, envVars, unchangedByLoop, Live
<1>1. CASE Run \/ Reset \/ Iterate \/ Leave \/ Relock
  BY <1>1 DEF Run, Reset, Iterate, Leave, Relock, Kinds
<1>2. CASE Reap
  <2>1. \A o \in toDispatch : life'[o] = life[o]
    BY <1>2 DEF Reap, Reapable
  <2> QED
    BY <1>2, <2>1 DEF Reap
<1>3. CASE Prepare
  BY <1>3 DEF Prepare, WithData, Unelapsed
<1>4. CASE PollCopy
  BY <1>4 DEF PollCopy
<1>5. CASE Poll
  <2>1. \E expired \in SUBSET Unelapsed : toDispatch' = toDispatch \cup expired
    BY <1>5 DEF Poll
  <2>2. UNCHANGED <<ext, qpc, tpc, left, executing, life>> /\ lpc = "poll" /\ lpc' = "check"
    BY <1>5 DEF Poll
  <2> QED
    BY <2>1, <2>2 DEF Unelapsed
<1>6. CASE Check
  BY <1>6 DEF Check, WithData
<1>7. CASE Push
  BY <1>7 DEF Push, Notified, Kinds
<1> QED
  BY <1>1, <1>2, <1>3, <1>4, <1>5, <1>6, <1>7 DEF LoopStep

(* The queue's thread only visits, and then clears, what is in the sets. *)
LEMMA QueueInv == ASSUME TypeOK, Inv, QueueStep \/ SpuriousWakeup PROVE Inv'
<1> USE DEF TypeOK, Inv, MutexOwned, InIteration, InExternal, RoundInSets, SetsAlive, Kinds,
            objVars, flagVars, pollVars, roundVars, queueVars, envVars, unchangedByQueue
<1>1. CASE QueueRun \/ QueueEnter \/ SpuriousWakeup \/ BeginRound \/ EndRound
  BY <1>1 DEF QueueRun, QueueEnter, SpuriousWakeup, BeginRound, EndRound
<1>2. CASE BeginExternal
  BY <1>2 DEF BeginExternal
<1>3. CASE \E kind \in Kinds, o \in Objects : Visit(kind, o)
  BY <1>3 DEF Visit
<1>4. CASE Return
  BY <1>4 DEF Return
<1>5. CASE EndTimeouts \/ EndWatches \/ EndExternal
  BY <1>5 DEF EndTimeouts, EndWatches, EndExternal, RoundOver
<1> QED
  BY <1>1, <1>2, <1>3, <1>4, <1>5 DEF QueueStep

(* The loop is deleted only after the joins, when no round can begin. *)
LEMMA TestInv == ASSUME TypeOK, Inv, TestStep PROVE Inv'
<1> USE DEF TypeOK, Inv, MutexOwned, InIteration, InExternal, RoundInSets, SetsAlive, Kinds,
            objVars, flagVars, pollVars, roundVars, queueVars, envVars, unchangedByTest, Goto
<1>1. CASE StopLoop
  BY <1>1 DEF StopLoop
<1>2. CASE StopQueue("stop", "spin") \/ StopQueue("stop2", "both")
  BY <1>2 DEF StopQueue, Notified
<1>3. CASE Available \/ UnregisterService \/ Spin \/ CheckQueue \/ WaitBoth
  BY <1>3 DEF Available, UnregisterService, Spin, CheckQueue, WaitBoth
<1>4. CASE JoinLoop \/ JoinQueue \/ Delete
  BY <1>4 DEF JoinLoop, JoinQueue, Delete
<1> QED
  BY <1>1, <1>2, <1>3, <1>4 DEF TestStep

(* The inductive invariant: who owns the mutex, what a round may touch, and    *)
(* that an object in the sets is alive for as long as the threads run.         *)
THEOREM TwoThreadInvariant == Spec => []Inv
<1>1. Init => Inv
  BY DEF Init, Inv, MutexOwned, InIteration, InExternal, RoundInSets, SetsAlive, Kinds
<1>2. TypeOK /\ Inv /\ [Next]_vars => Inv'
  <2> SUFFICES ASSUME TypeOK, Inv, [Next]_vars PROVE Inv'
    OBVIOUS
  <2>1. CASE UNCHANGED vars
    BY <2>1 DEF vars, objVars, flagVars, pollVars, roundVars, queueVars, envVars,
       Inv, MutexOwned, InIteration, InExternal, RoundInSets, SetsAlive
  <2> QED
    BY <2>1, LibraryInv, LoopInv, QueueInv, TestInv DEF Next
<1> QED
  BY <1>1, <1>2, TwoThreadType, PTL DEF Spec

(* The loop's iteration and the queue's round never run at the same time.      *)
THEOREM TwoThreadExclusive == Spec => []RoundsExclusive
<1>1. Inv => RoundsExclusive
  BY DEF Inv, MutexOwned, RoundsExclusive
<1> QED
  BY <1>1, TwoThreadInvariant, PTL

(* No object is dispatched or kept for a round after it was deleted.           *)
THEOREM TwoThreadNoUseAfterFree == Spec => []NoUseAfterFree
<1>1. Inv => NoUseAfterFree
  BY DEF Inv, RoundInSets, SetsAlive, InExternal, Kinds, NoUseAfterFree
<1> QED
  BY <1>1, TwoThreadInvariant, PTL

--------------------------------------------------------------------------------
(* The contract of both main loops. *)
abstract == <<stages, chosen, chosen, exists>>

(* Only an object whose life a step changes is at another stage. *)
LEMMA StageBecomes ==
  ASSUME TypeOK, TypeOK', NEW S, NEW now, NEW stage,
         \/ now = "live" /\ stage = "registered"
         \/ now = "flagged" /\ stage = "unregistered"
         \/ now = "freed" /\ stage = "deleted",
         life' = [o \in Objects |-> IF o \in S THEN now ELSE life[o]]
  PROVE  Contract!Become(S, stage)
<1>1. \A o \in Objects : Stage(o)' = IF o \in S THEN stage ELSE Stage(o)
  BY DEF Stage, TypeOK
<1>2. stages' = [o \in Objects |-> Stage(o)']  BY DEF stages
<1>3. \A o \in Objects : stages[o] = Stage(o)  BY DEF stages
<1> HIDE DEF Stage, Objects
<1> QED  BY <1>1, <1>2, <1>3 DEF Contract!Become

LEMMA StageOf ==
  ASSUME TypeOK, NEW o \in Objects
  PROVE  /\ stages[o] = "new" <=> life[o] = "new"
         /\ stages[o] = "registered" <=> life[o] = "live"
         /\ stages[o] = "unregistered" <=> life[o] = "flagged"
BY DEF stages, Stage, TypeOK

LEMMA StagesKept ==
  ASSUME life' = life
  PROVE  stages' = stages
BY DEF stages, Stage

(* The library's calls register and unregister. *)
LEMMA ContractByLibrary ==
  ASSUME TypeOK, TypeOK', Library
  PROVE  Contract!Next \/ UNCHANGED abstract
<1>1. UNCHANGED <<chosen, exists>> /\ (life' # life => exists)
  BY DEF Library, Register, Unregister, Arrive, Elapse, roundVars, objVars, chosen, exists
<1>2. CASE \E o \in Objects : Register(o)
  <2>1. PICK o \in Objects : Register(o)  BY <1>2
  <2>2. life' = [p \in Objects |-> IF p \in {o} THEN "live" ELSE life[p]]
    BY <2>1 DEF Register, TypeOK
  <2>3. Contract!Become({o}, "registered")  BY <2>2, StageBecomes
  <2>4. Contract!Register(o)
    BY <1>1, <2>1, <2>3, StageOf DEF Contract!Register, Register, exists
  <2> QED  BY <2>4 DEF Contract!Next
<1>3. CASE \E o \in Objects : Unregister(o)
  <2>1. PICK o \in Objects : Unregister(o)  BY <1>3
  <2>2. life' = [p \in Objects |-> IF p \in {o} THEN "flagged" ELSE life[p]]
    BY <2>1 DEF Unregister, TypeOK
  <2>3. Contract!Become({o}, "unregistered")  BY <2>2, StageBecomes
  <2>4. Contract!Unregister(o)
    BY <1>1, <2>1, <2>3, StageOf DEF Contract!Unregister, Unregister, Live, exists
  <2> QED  BY <2>4 DEF Contract!Next
<1>4. CASE (\E o \in Sources \cup Watches : Arrive(o)) \/ (\E t \in Timeouts : Elapse(t))
  BY <1>1, <1>4, StagesKept DEF Arrive, Elapse, objVars, abstract
<1> QED  BY <1>2, <1>3, <1>4 DEF Library

(* The loop's thread deletes what is flagged and not being dispatched. *)
LEMMA ContractByLoop ==
  ASSUME TypeOK, TypeOK', LoopStep
  PROVE  Contract!Next \/ UNCHANGED abstract
<1>1. UNCHANGED <<executing, tpc>>
  BY DEF LoopStep, Run, Reset, Iterate, Leave, Reap, Prepare, PollCopy, Poll, Check, Push,
     Relock, unchangedByLoop, roundVars
<1>2. UNCHANGED <<chosen, exists>>  BY <1>1 DEF chosen, exists
<1>3. CASE Reap
  <2>1. PICK gone \in SUBSET Reapable :
          life' = [o \in Objects |-> IF o \in gone THEN "freed" ELSE life[o]]
    BY <1>3 DEF Reap
  <2>2. gone \subseteq Objects
        /\ \A o \in gone : stages[o] = "unregistered" /\ o \notin chosen
    BY <2>1, StageOf DEF Reapable, chosen
  <2>3. Contract!Become(gone, "deleted")  BY <2>1, StageBecomes
  <2>4. Contract!Delete(gone)  BY <1>2, <2>2, <2>3 DEF Contract!Delete
  <2> QED  BY <2>2, <2>4 DEF Contract!Next
<1>4. CASE ~Reap
  <2>1. life' = life
    BY <1>4 DEF LoopStep, Run, Reset, Iterate, Leave, Prepare, PollCopy, Poll, Check, Push,
       Relock, objVars
  <2> QED  BY <1>2, <2>1, StagesKept DEF abstract
<1> QED  BY <1>3, <1>4

(* The queue's thread dispatches one object at a time, found registered. *)
LEMMA ContractByQueue ==
  ASSUME TypeOK, Inv, QueueStep \/ SpuriousWakeup
  PROVE  Contract!Next \/ UNCHANGED abstract
<1>1. UNCHANGED <<life, tpc>>
  BY DEF QueueStep, SpuriousWakeup, QueueRun, QueueEnter, BeginRound, EndRound, BeginExternal,
     Visit, Return, EndTimeouts, EndWatches, EndExternal, unchangedByQueue, objVars
<1>2. UNCHANGED <<stages, exists>>  BY <1>1, StagesKept DEF exists
<1>3. CASE \E kind \in Kinds, o \in Objects : Visit(kind, o)
  <2>1. PICK kind \in Kinds, o \in Objects : Visit(kind, o)  BY <1>3
  <2>2. executing = None /\ chosen = {} /\ o # None
    BY <2>1 DEF Visit, chosen
  <2>3. CASE Live(o)
    <3>1. executing' = o /\ chosen' = {o}  BY <2>1, <2>2, <2>3 DEF Visit, chosen
    <3>2. exists
      <4>1. InExternal  BY <2>1 DEF Visit, InExternal
      <4> QED  BY <4>1 DEF Inv, SetsAlive, InExternal, Kinds, exists
    <3>3. Contract!Hold(o)
      BY <1>2, <2>2, <2>3, <3>1, <3>2, StageOf DEF Contract!Hold, Live
    <3> QED  BY <3>3 DEF Contract!Next
  <2>4. CASE ~Live(o)
    BY <1>2, <2>1, <2>2, <2>4 DEF Visit, chosen, abstract
  <2> QED  BY <2>3, <2>4
<1>4. CASE Return
  <2>1. executing' \in {None, executing}  BY <1>4 DEF Return
  <2>2. CASE executing' = executing  BY <1>2, <2>2 DEF chosen, abstract
  <2>3. CASE executing' = None
    <3>1. chosen' = {}  BY <2>3 DEF chosen
    <3>2. Contract!Finish  BY <1>2, <3>1 DEF Contract!Finish
    <3> QED  BY <3>2 DEF Contract!Next
  <2> QED  BY <2>1, <2>2, <2>3
<1>5. CASE /\ ~Return /\ ~\E kind \in Kinds, o \in Objects : Visit(kind, o)
  <2>1. executing' = executing
    BY <1>5 DEF QueueStep, SpuriousWakeup, QueueRun, QueueEnter, BeginRound, EndRound,
       BeginExternal, EndTimeouts, EndWatches, EndExternal, roundVars
  <2> QED  BY <1>2, <2>1 DEF chosen, abstract
<1> QED  BY <1>3, <1>4, <1>5

(* The loop is destroyed when both threads have been joined. *)
LEMMA ContractByTest ==
  ASSUME TypeOK, TypeOK', Inv, TestStep
  PROVE  Contract!Next \/ UNCHANGED abstract
<1>1. executing' = executing
  BY DEF TestStep, Available, UnregisterService, StopLoop, StopQueue, Spin, CheckQueue,
     WaitBoth, JoinLoop, JoinQueue, Delete, unchangedByTest, roundVars
<1>2. chosen' = chosen  BY <1>1 DEF chosen
<1>3. CASE Delete
  <2>1. tpc = "delete" /\ tpc' = "done"  BY <1>3 DEF Delete, Goto
  <2>2. executing = None /\ chosen = {}
    BY <2>1 DEF Inv, SetsAlive, RoundInSets, InExternal, Kinds, chosen
  <2>3. exists /\ exists' = FALSE  BY <2>1 DEF exists
  <2> DEFINE S == {o \in Objects : stages[o] # "new"}
  <2>4. life' = [o \in Objects |-> IF o \in S THEN "freed" ELSE life[o]]
    <3>1. \A o \in Objects : o \in S <=> life[o] # "new"  BY StageOf
    <3>2. life' = [o \in Objects |-> IF life[o] = "new" THEN "new" ELSE "freed"]
      BY <1>3 DEF Delete
    <3> HIDE DEF S
    <3> QED  BY <3>1, <3>2
  <2>5. Contract!Become(S, "deleted")
    <3> HIDE DEF S
    <3> QED  BY <2>4, StageBecomes
  <2>6. Contract!Close  BY <1>2, <2>2, <2>3, <2>5 DEF Contract!Close
  <2> QED  BY <2>6 DEF Contract!Next
<1>4. CASE ~Delete
  <2>1. life' = life /\ exists' = exists
    BY <1>4 DEF TestStep, Available, UnregisterService, StopLoop, StopQueue, Spin, CheckQueue,
       WaitBoth, JoinLoop, JoinQueue, unchangedByTest, Goto, exists
  <2> QED  BY <1>2, <2>1, StagesKept DEF abstract
<1> QED  BY <1>3, <1>4

(* The loop with a second thread keeps the contract of the first one: leaving *)
(* the dispatching to the queue changes nothing for who registers objects.    *)
THEOREM TwoThreadImplements == Spec => ImplementsContract
<1>1. Init => Contract!Init
  <2> SUFFICES ASSUME Init  PROVE Contract!Init
    OBVIOUS
  <2>1. stages = [o \in Objects |-> "new"]  BY DEF Init, stages, Stage
  <2>2. chosen = {} /\ exists = TRUE  BY DEF Init, chosen, exists
  <2> QED  BY <2>1, <2>2 DEF Contract!Init
<1>2. TypeOK /\ TypeOK' /\ Inv /\ [Next]_vars => [Contract!Next]_abstract
  <2> SUFFICES ASSUME TypeOK, TypeOK', Inv, [Next]_vars
               PROVE  Contract!Next \/ UNCHANGED abstract
    OBVIOUS
  <2>1. CASE UNCHANGED vars
    <3>1. UNCHANGED <<life, executing, tpc>>  BY <2>1 DEF vars, objVars, roundVars
    <3> QED  BY <3>1, StagesKept DEF abstract, chosen, exists
  <2> QED
    BY <2>1, ContractByLibrary, ContractByLoop, ContractByQueue, ContractByTest DEF Next
<1> QED
  BY <1>1, <1>2, TwoThreadType, TwoThreadInvariant, PTL
  DEF Spec, ImplementsContract, Contract!Spec, Contract!contract, abstract

--------------------------------------------------------------------------------
(* The stop reaches both threads: once the test's wait has ended they have     *)
(* passed the places where running_ and hasToStop_ are set anew, the loop does *)
(* not begin a poll that the wakeup does not end, and the queue's thread does  *)
(* not begin a wait after running_ was cleared.                                *)
Stopping == tpc \notin {"available", "unregister", "running"}
StopInv ==
  /\ lpc \in {"start", "reset"} => toDispatch = {} /\ ~isAvailable
  /\ qpc = "start" => ~isAvailable
  /\ tpc # "available" => isAvailable
  /\ running <=> lpc \notin {"start", "done"}
  /\ lpc = "done" => hasToStop
  /\ hasToStop => wake \/ lpc \in {"check", "push", "relock", "while", "done"}
  /\ Stopping => hasToStop
  /\ qpc = "wait" => eqRunning
  /\ tpc \in {"spin", "both", "joinLoop", "joinQueue", "delete", "done"} => ~eqRunning
  /\ tpc \in {"joinLoop", "joinQueue", "delete", "done"} => ~running

LEMMA LibraryStop == ASSUME TypeOK, StopInv, Library PROVE StopInv'
<1> USE DEF TypeOK, StopInv, Stopping,
            objVars, flagVars, pollVars, roundVars, queueVars, envVars
<1>1. CASE \E o \in Objects : Register(o) \/ Unregister(o)
  BY <1>1 DEF Register, Unregister
<1>2. CASE \E o \in Sources \cup Watches : Arrive(o)
  BY <1>2 DEF Arrive
<1>3. CASE \E t \in Timeouts : Elapse(t)
  BY <1>3 DEF Elapse
<1> QED
  BY <1>1, <1>2, <1>3 DEF Library

(* Only Poll takes the wakeup back, and then the loop comes to its test of     *)
(* hasToStop_ without another poll.                                            *)
LEMMA LoopStop == ASSUME TypeOK, StopInv, LoopStep PROVE StopInv'
<1> USE DEF TypeOK, StopInv, Stopping,
            objVars, flagVars, pollVars, roundVars, queueVars, envVars, unchangedByLoop
<1>1. CASE Run \/ Reset \/ Iterate \/ Leave \/ Relock
  BY <1>1 DEF Run, Reset, Iterate, Leave, Relock
<1>2. CASE Reap
  BY <1>2 DEF Reap
<1>3. CASE Prepare
  BY <1>3 DEF Prepare
<1>4. CASE PollCopy
  BY <1>4 DEF PollCopy
<1>5. CASE Poll
  BY <1>5 DEF Poll
<1>6. CASE Check
  BY <1>6 DEF Check
<1>7. CASE Push
  BY <1>7 DEF Push, Notified
<1> QED
  BY <1>1, <1>2, <1>3, <1>4, <1>5, <1>6, <1>7 DEF LoopStep

(* The service becomes available by a dispatch(), with both threads at work.   *)
LEMMA QueueStop ==
  ASSUME TypeOK, Inv, StopInv, QueueStep \/ SpuriousWakeup  PROVE StopInv'
<1> USE DEF TypeOK, StopInv, Stopping, Kinds,
            objVars, flagVars, pollVars, roundVars, queueVars, envVars, unchangedByQueue
<1>1. CASE QueueRun \/ QueueEnter \/ SpuriousWakeup \/ BeginRound \/ EndRound
  BY <1>1 DEF QueueRun, QueueEnter, SpuriousWakeup, BeginRound, EndRound
<1>2. CASE BeginExternal
  BY <1>2 DEF BeginExternal
<1>3. CASE \E kind \in Kinds, o \in Objects : Visit(kind, o)
  BY <1>3 DEF Visit
<1>4. CASE Return
  <2>1. toDispatch # {} /\ qpc \in Kinds
    BY <1>4 DEF Return, Inv, RoundInSets, InExternal
  <2> QED
    BY <1>4, <2>1 DEF Return
<1>5. CASE EndTimeouts \/ EndWatches \/ EndExternal
  BY <1>5 DEF EndTimeouts, EndWatches, EndExternal, RoundOver
<1> QED
  BY <1>1, <1>2, <1>3, <1>4, <1>5 DEF QueueStep

LEMMA TestStop == ASSUME TypeOK, StopInv, TestStep PROVE StopInv'
<1> USE DEF TypeOK, StopInv, Stopping,
            objVars, flagVars, pollVars, roundVars, queueVars, envVars, unchangedByTest, Goto
<1>1. CASE StopLoop
  BY <1>1 DEF StopLoop
<1>2. CASE StopQueue("stop", "spin") \/ StopQueue("stop2", "both")
  BY <1>2 DEF StopQueue, Notified
<1>3. CASE Available \/ UnregisterService \/ Spin \/ CheckQueue \/ WaitBoth
  BY <1>3 DEF Available, UnregisterService, Spin, CheckQueue, WaitBoth
<1>4. CASE JoinLoop \/ JoinQueue \/ Delete
  BY <1>4 DEF JoinLoop, JoinQueue, Delete
<1> QED
  BY <1>1, <1>2, <1>3, <1>4 DEF TestStep

(* No stop() is lost.                                                          *)
THEOREM TwoThreadStop == Spec => []StopInv
<1>1. Init => StopInv
  BY DEF Init, StopInv, Stopping
<1>2. TypeOK /\ Inv /\ StopInv /\ [Next]_vars => StopInv'
  <2> SUFFICES ASSUME TypeOK, Inv, StopInv, [Next]_vars PROVE StopInv'
    OBVIOUS
  <2>1. CASE UNCHANGED vars
    BY <2>1 DEF vars, objVars, flagVars, roundVars, queueVars, StopInv, Stopping
  <2> QED
    BY <2>1, LibraryStop, LoopStop, QueueStop, TestStop DEF Next
<1> QED
  BY <1>1, <1>2, TwoThreadType, TwoThreadInvariant, PTL DEF Spec

(* A thread that has externalIterationMutex_ goes on.                          *)
LEMMA OwnerGoesOn ==
  ASSUME TypeOK, Inv, StopInv, Stopping, ext # None
  PROVE  LoopCan \/ QueueCan
<1>1. CASE ext = "queue"
  <2>1. qpc \in Kinds  BY <1>1 DEF Inv, MutexOwned, InExternal
  <2> QED  BY <2>1 DEF Kinds, QueueCan
<1>2. CASE ext = "loop"
  <2>1. lpc \in {"reap", "prepare", "copy", "poll", "check"}
    BY <1>2 DEF Inv, MutexOwned, InIteration
  <2>2. lpc = "poll" => wake  BY DEF StopInv
  <2> QED  BY <2>1, <2>2 DEF LoopCan
<1> QED  BY <1>1, <1>2 DEF TypeOK

(* So does one that has queueLock_, or the one that it waits for.              *)
LEMMA WorkerGoesOn ==
  ASSUME TypeOK, Inv, StopInv, Stopping, ~QueueIdle
  PROVE  LoopCan \/ QueueCan
<1>1. qpc = "next" \/ qpc \in Kinds  BY DEF QueueIdle, TypeOK, QueueAt
<1>2. CASE qpc = "next" /\ ext # None  BY <1>2, OwnerGoesOn
<1>3. CASE qpc = "next" /\ ext = None  BY <1>3 DEF QueueCan
<1>4. CASE qpc \in Kinds  BY <1>4 DEF Kinds, QueueCan
<1> QED  BY <1>1, <1>2, <1>3, <1>4

(* TearDown() is never stuck, whatever is registered and dispatched while the  *)
(* threads are stopped: no two of the three threads wait for each other, and   *)
(* none waits for a signal that was given before.                              *)
THEOREM TwoThreadNeverStuck == Spec => []TearDownNeverStuck
<1>1. TypeOK /\ Inv /\ StopInv => TearDownNeverStuck
  <2> SUFFICES ASSUME TypeOK, Inv, StopInv, tpc \notin {"available", "done"}
               PROVE  LoopCan \/ QueueCan \/ TestCan
    BY DEF TearDownNeverStuck
  <2>1. CASE tpc \in {"unregister", "running", "queue", "delete"}
    BY <2>1 DEF TestCan
  <2>2. CASE tpc \in {"stop", "stop2"}
    BY <2>2, WorkerGoesOn DEF TestCan, Stopping
  <2>3. CASE tpc = "spin"
    BY <2>3 DEF TestCan, StopInv
  <2>4. CASE tpc = "both"
    <3>1. ~running => TestCan  BY <2>4 DEF TestCan, StopInv
    <3>2. CASE running
      <4>1. Stopping /\ hasToStop /\ lpc \in LoopAt \ {"start", "done"}
        BY <2>4, <3>2 DEF StopInv, Stopping, TypeOK
      <4>2. lpc = "poll" => wake  BY <4>1 DEF StopInv
      <4>3. CASE lpc = "relock" /\ ext # None  BY <4>1, <4>3, OwnerGoesOn
      <4>4. CASE lpc = "push" /\ ~QueueIdle  BY <4>1, <4>4, WorkerGoesOn
      <4>5. CASE ~(lpc = "relock" /\ ext # None) /\ ~(lpc = "push" /\ ~QueueIdle)
        BY <4>1, <4>2, <4>5 DEF LoopCan, LoopAt
      <4> QED  BY <4>3, <4>4, <4>5
    <3> QED  BY <3>1, <3>2
  <2>5. CASE tpc = "joinLoop"
    <3>1. lpc = "done"  BY <2>5 DEF StopInv
    <3> QED  BY <2>5, <3>1 DEF TestCan
  <2>6. CASE tpc = "joinQueue"
    <3>1. Stopping /\ qpc # "wait"  BY <2>6 DEF StopInv, Stopping
    <3>2. CASE qpc = "done"  BY <2>6, <3>2 DEF TestCan
    <3>3. CASE qpc # "done" /\ QueueIdle  BY <3>1, <3>3 DEF QueueCan, QueueIdle
    <3>4. CASE ~QueueIdle  BY <3>1, <3>4, WorkerGoesOn
    <3> QED  BY <3>2, <3>3, <3>4
  <2> QED  BY <2>1, <2>2, <2>3, <2>4, <2>5, <2>6 DEF TypeOK, TestAt
<1> QED
  BY <1>1, TwoThreadType, TwoThreadInvariant, TwoThreadStop, PTL
=============================================================================
