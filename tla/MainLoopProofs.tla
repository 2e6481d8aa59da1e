---------------------------- MODULE MainLoopProofs ----------------------------
(* Theorems about MainLoop, for any objects, threads, priorities and bounds. *)
EXTENDS MainLoop, FiniteSetTheorems, TLAPS

USE MainLoopAssumption DEF Objects, Threads, VerifyModes

(* The calls a thread can be in. *)
LEMMA CallTypes ==
  /\ IdleCall \in Calls /\ InCall("stopWake", None) \in Calls
  /\ \A s \in Sources : InCall("break", s) \in Calls
  /\ \A w \in Watches : /\ InCall("insertWatch", w) \in Calls
                        /\ InCall("dropFd", w) \in Calls
                        /\ InCall("flagWatch", w) \in Calls
BY DEF Calls, InCall, IdleCall

(* The three steps that are about a watch have one as their object. *)
LEMMA CallObjects ==
  ASSUME NEW c \in Calls, c.step \in {"insertWatch", "dropFd", "flagWatch"}
  PROVE  c.obj \in Watches
BY DEF Calls

(* The flags stay Booleans. *)
LEMMA FlagsType ==
  ASSUME FlagsOK, NEW t \in Threads, BeginCall(t) \/ FinishCall(t)
  PROVE  FlagsOK'
BY DEF FlagsOK, flagVars, BeginCall, FinishCall, RegisterSource, UnregisterSource, RegisterWatch,
   UnregisterWatch, RegisterTimeout, UnregisterTimeout, Stop, Wakeup, StopWake, BreakRound,
   InsertWatch, DropFd, FlagWatch

(* A registration or unregistration keeps the types. *)
LEMMA CallType ==
  ASSUME DataOK, NEW t \in Threads, BeginCall(t) \/ FinishCall(t)
  PROVE  DataOK'
<1> USE CallTypes DEF flagVars, pollVars, entryVars, roundVars, envVars, history, sharedVars
<1>1. Cardinality(registered \cup freed) \in Nat
  BY FS_Subset, FS_CardinalityType DEF DataOK
<1>2. CASE \E s \in Sources : RegisterSource(t, s) \/ UnregisterSource(t, s)
  BY <1>1, <1>2 DEF DataOK, RegisterSource, UnregisterSource, Insert
<1>3. CASE \E w \in Watches : RegisterWatch(t, w) \/ UnregisterWatch(t, w)
  BY <1>3 DEF DataOK, RegisterWatch, UnregisterWatch
<1>4. CASE \E o \in Timeouts : RegisterTimeout(t, o) \/ UnregisterTimeout(t, o)
  BY <1>1, <1>4 DEF DataOK, RegisterTimeout, UnregisterTimeout, Insert
<1>5. CASE Stop(t) \/ Wakeup(t)
  BY <1>5 DEF DataOK, Stop, Wakeup
<1>6. CASE StopWake(t) \/ BreakRound(t)
  BY <1>6 DEF DataOK, StopWake, BreakRound
<1>7. CASE InsertWatch(t) \/ DropFd(t) \/ FlagWatch(t)
  <2>1. call[t].obj \in Watches
    BY <1>7, CallObjects DEF DataOK, InsertWatch, DropFd, FlagWatch
  <2> QED
    BY <1>1, <1>7, <2>1 DEF DataOK, InsertWatch, DropFd, FlagWatch, Insert
<1> QED
  BY <1>2, <1>3, <1>4, <1>5, <1>6, <1>7 DEF BeginCall, FinishCall

(* Whatever the loop and its environment do, the flags stay Booleans. *)
LEMMA LoopFlagsType ==
  ASSUME FlagsOK, EnterLoop \/ LoopStep \/ Environment
  PROVE  FlagsOK'
<1> USE DEF FlagsOK, flagVars, LoopKeeps, ScanKeeps, DispatchKeeps, EnvKeeps, Reap
<1>1. CASE EnterLoop \/ Environment
  BY <1>1 DEF EnterLoop, Enter, IterateOnce, Destroy, Environment, Elapse, Arrive
<1>2. CASE Reset \/ Continue \/ Leave \/ VerifyWake \/ Divide
  BY <1>2 DEF Reset, Continue, Leave, VerifyWake, Divide
<1>3. CASE ReapSourcesAndWatches \/ ReapTimeouts \/ PrepareSources \/ PrepareTimeouts
  BY <1>3 DEF ReapSourcesAndWatches, ReapTimeouts, PrepareSources, PrepareTimeouts
<1>4. CASE PollCopy \/ PollWait \/ PollUpdate \/ PollTimeouts \/ CheckWatches \/ CheckSources
  BY <1>4 DEF PollCopy, PollWait, PollUpdate, PollTimeouts, CheckWatches, CheckSources
<1>5. CASE PollAck \/ BeginSources \/ Recheck \/ Invoke \/ Return
  BY <1>5 DEF PollAck, BeginSources, Recheck, Invoke, Return
<1>6. CASE \E r \in {"timeouts", "watches", "sources"} : Visit(r) \/ EndRound(r)
  BY <1>6 DEF Visit, EndRound
<1> QED
  BY <1>1, <1>2, <1>3, <1>4, <1>5, <1>6 DEF LoopStep

LEMMA Places ==
  /\ IterationEnd \in {"while", "off"}
  /\ FirstRound \in {"timeouts", "watches", "beginSources", "while", "off"}
  /\ \A r : NextRound(r) \in {"timeouts", "watches", "beginSources", "while", "off"}
  /\ \A o : RoundOf(o) \in {"timeouts", "watches", "sources"}
BY DEF IterationEnd, FirstRound, NextRound, RoundOf

(* The loop and its environment keep the types. *)
LEMMA LoopType ==
  ASSUME DataOK, EnterLoop \/ LoopStep \/ Environment
  PROVE  DataOK'
<1> USE Places DEF DataOK, Goto, sharedVars, flagVars, pollVars, entryVars, roundVars, envVars, history
<1>1. CASE EnterLoop
  BY <1>1 DEF EnterLoop, Enter, IterateOnce, Destroy, LoopKeeps, Locations
<1>2. CASE Environment
  BY <1>2 DEF Environment, Elapse, Arrive, EnvKeeps
<1>3. CASE Reset \/ Continue \/ Leave \/ VerifyWake \/ Divide
  BY <1>3 DEF Reset, Continue, Leave, VerifyWake, Divide, LoopKeeps, Locations
<1>4. CASE ReapSourcesAndWatches \/ ReapTimeouts
  BY <1>4 DEF ReapSourcesAndWatches, ReapTimeouts, Reap, Reaped, Reapable, Locations
<1>5. CASE PrepareSources
  BY <1>5 DEF PrepareSources, ScanKeeps, ReadySources, Live, Locations
<1>6. CASE PrepareTimeouts
  BY <1>6 DEF PrepareTimeouts, ScanKeeps, NewlyElapsed, Live, Locations
<1>7. CASE PollCopy \/ PollWait \/ PollUpdate \/ PollTimeouts
  BY <1>7 DEF PollCopy, PollWait, PollUpdate, PollTimeouts, ReadyFds, NewlyElapsed, Live,
     ScanKeeps, Locations
<1>8. CASE PollAck
  BY <1>8 DEF PollAck, LoopKeeps, Locations
<1>9. CASE CheckWatches \/ CheckSources
  BY <1>9 DEF CheckWatches, CheckSources, ScanKeeps, ReadySources, Live, Locations
<1>10. CASE \E r \in {"timeouts", "watches", "sources"} : Visit(r) \/ EndRound(r)
  <2>1. PICK r \in {"timeouts", "watches", "sources"} : Visit(r) \/ EndRound(r)
    BY <1>10
  <2>2. KindOf(r) \subseteq Objects /\ r \in Locations
    BY <2>1 DEF KindOf, Locations
  <2>3. CASE Visit(r)
    BY <2>2, <2>3 DEF Visit, DispatchKeeps, Locations
  <2>4. CASE EndRound(r)
    BY <2>2, <2>4 DEF EndRound, DispatchKeeps, Locations
  <2> QED
    BY <2>1, <2>3, <2>4
<1>11. CASE BeginSources \/ Recheck \/ Return
  <2>1. CASE BeginSources  BY <2>1 DEF BeginSources, DispatchKeeps, Locations
  <2>2. CASE Recheck  BY <2>2 DEF Recheck, DispatchKeeps, Locations
  <2>3. CASE Return  BY <2>3 DEF Return, DispatchKeeps, Locations
  <2> QED  BY <1>11, <2>1, <2>2, <2>3
<1>12. CASE Invoke
  BY <1>12 DEF Invoke, Once, DispatchKeeps, Locations
<1> QED
  BY <1>1, <1>2, <1>3, <1>4, <1>5, <1>6, <1>7, <1>8, <1>9, <1>10, <1>11, <1>12 DEF LoopStep

(* Every variable of the main loop keeps its type. *)
THEOREM MainLoopType == Spec => []TypeOK
<1>1. Init => TypeOK
  <2>1. Init => FlagsOK
    BY DEF Init, FlagsOK
  <2>2. Init => DataOK
    BY CallTypes DEF Init, DataOK, Locations, EntryPoints, LoopModes, RunModes
  <2> QED
    BY <2>1, <2>2 DEF TypeOK
<1>2. TypeOK /\ [Next]_vars => TypeOK'
  <2> SUFFICES ASSUME TypeOK, [Next]_vars PROVE TypeOK'
    OBVIOUS
  <2>1. CASE \E t \in Threads : BeginCall(t) \/ FinishCall(t)
    BY <2>1, FlagsType, CallType DEF TypeOK
  <2>2. CASE EnterLoop \/ LoopStep \/ Environment
    BY <2>2, LoopFlagsType, LoopType DEF TypeOK
  <2>3. CASE UNCHANGED vars
    BY <2>3 DEF TypeOK, FlagsOK, DataOK, vars, sharedVars, flagVars, pollVars, entryVars,
       roundVars, envVars, history
  <2> QED
    BY <2>1, <2>2, <2>3 DEF Next
<1> QED
  BY <1>1, <1>2, PTL DEF Spec

-----------------------------------------------------------------------------
(* Memory safety and late dispatches.                                       *)

(* Only the named steps touch the registries, the calls or the late counts. *)
LEMMA LoopCalls ==
  ASSUME LoopStep \/ Environment \/ (\E m \in Modes : Enter(m) \/ IterateOnce(m))
  PROVE  /\ UNCHANGED <<call, managed, deleteObject>>
         /\ late' = late \/ Invoke
<1> USE DEF LoopKeeps, ScanKeeps, DispatchKeeps, EnvKeeps, Reap, sharedVars, history
<1>1. CASE Environment \/ (\E m \in Modes : Enter(m) \/ IterateOnce(m))
  BY <1>1 DEF Enter, IterateOnce, Environment, Elapse, Arrive
<1>2. CASE Reset \/ Continue \/ Leave \/ VerifyWake \/ Divide
  BY <1>2 DEF Reset, Continue, Leave, VerifyWake, Divide
<1>3. CASE ReapSourcesAndWatches \/ ReapTimeouts \/ PrepareSources \/ PrepareTimeouts
  BY <1>3 DEF ReapSourcesAndWatches, ReapTimeouts, PrepareSources, PrepareTimeouts
<1>4. CASE PollCopy \/ PollWait \/ PollUpdate \/ PollTimeouts \/ CheckWatches \/ CheckSources
  BY <1>4 DEF PollCopy, PollWait, PollUpdate, PollTimeouts, CheckWatches, CheckSources
<1>5. CASE PollAck \/ BeginSources \/ Recheck \/ Return
  BY <1>5 DEF PollAck, BeginSources, Recheck, Return
<1>6. CASE \E r \in {"timeouts", "watches", "sources"} : Visit(r) \/ EndRound(r)
  BY <1>6 DEF Visit, EndRound
<1>7. CASE Invoke
  BY <1>7 DEF Invoke
<1> QED
  BY <1>1, <1>2, <1>3, <1>4, <1>5, <1>6, <1>7 DEF LoopStep

(* What the loop is about to dispatch stays registered and unfreed. *)
LEMMA MemoryByLoop ==
  ASSUME DataOK, MemoryInv, EnterLoop \/ LoopStep \/ Environment
  PROVE  MemoryInv'
<1> USE Places DEF MemoryInv, Executing, Goto, roundVars, sharedVars, flagVars
<1>1. CASE \E m \in Modes : Enter(m) \/ IterateOnce(m)
  BY <1>1 DEF Enter, IterateOnce, LoopKeeps
<1>2. CASE Destroy
  BY <1>2 DEF Destroy, DataOK
<1>3. CASE Environment
  BY <1>3 DEF Environment, Elapse, Arrive, EnvKeeps
<1>4. CASE Reset \/ Continue \/ Leave \/ VerifyWake \/ Divide \/ PollAck
  BY <1>4 DEF Reset, Continue, Leave, VerifyWake, Divide, PollAck, LoopKeeps
<1>5. CASE ReapSourcesAndWatches \/ ReapTimeouts
  BY <1>5 DEF ReapSourcesAndWatches, ReapTimeouts, Reap, Reaped, Reapable
<1>6. CASE PrepareSources \/ PrepareTimeouts
  BY <1>6 DEF PrepareSources, PrepareTimeouts, ScanKeeps, ReadySources, NewlyElapsed, Live
<1>7. CASE PollCopy \/ PollWait \/ PollUpdate \/ PollTimeouts
  BY <1>7 DEF PollCopy, PollWait, PollUpdate, PollTimeouts, NewlyElapsed, Live, ScanKeeps
<1>8. CASE CheckWatches \/ CheckSources
  BY <1>8 DEF CheckWatches, CheckSources, ScanKeeps, ReadySources, Live
<1>9. CASE \E r \in {"timeouts", "watches", "sources"} : Visit(r)
  BY <1>9 DEF Visit, DispatchKeeps
<1>10. CASE \E r \in {"timeouts", "watches", "sources"} : EndRound(r)
  BY <1>10 DEF EndRound, DispatchKeeps
<1>11. CASE BeginSources \/ Invoke \/ Recheck \/ Return
  BY <1>11 DEF BeginSources, Invoke, Recheck, Return, DispatchKeeps
<1> QED
  BY <1>1, <1>2, <1>3, <1>4, <1>5, <1>6, <1>7, <1>8, <1>9, <1>10, <1>11 DEF EnterLoop, LoopStep

(* The sets the loop works on are not touched by a registration call. *)
LEMMA MemoryByCall ==
  ASSUME DataOK, MemoryInv, CallInv, NEW t \in Threads, BeginCall(t) \/ FinishCall(t)
  PROVE  MemoryInv'
<1> USE DEF MemoryInv, Executing, roundVars, sharedVars
<1>1. CASE \E s \in Sources : RegisterSource(t, s) \/ UnregisterSource(t, s)
  BY <1>1 DEF RegisterSource, UnregisterSource, Insert, Fresh, Held
<1>2. CASE \E w \in Watches : RegisterWatch(t, w) \/ UnregisterWatch(t, w)
  BY <1>2 DEF RegisterWatch, UnregisterWatch
<1>3. CASE \E o \in Timeouts : RegisterTimeout(t, o) \/ UnregisterTimeout(t, o)
  BY <1>3 DEF RegisterTimeout, UnregisterTimeout, Insert, Fresh, Held
<1>4. CASE Stop(t) \/ Wakeup(t) \/ StopWake(t) \/ BreakRound(t) \/ DropFd(t)
  BY <1>4 DEF Stop, Wakeup, StopWake, BreakRound, DropFd
<1>5. CASE InsertWatch(t) \/ FlagWatch(t)
  BY <1>5 DEF InsertWatch, FlagWatch, Insert, CallInv
<1> QED
  BY <1>1, <1>2, <1>3, <1>4, <1>5 DEF BeginCall, FinishCall

(* Where the objects of the calls under way are, when the loop moves: only a *)
(* sweep frees, and it frees what is flagged; only Destroy frees the rest.   *)
LEMMA LoopFrees ==
  ASSUME MemoryInv, LoopStep \/ Environment \/ (\E m \in Modes : Enter(m) \/ IterateOnce(m))
  PROVE  /\ registered \cup freed = registered' \cup freed'
         /\ registered \ deleteObject \subseteq registered'
         /\ freed' \subseteq freed \cup deleteObject
<1> USE DEF LoopKeeps, ScanKeeps, DispatchKeeps, EnvKeeps, Reap, sharedVars, MemoryInv
<1>1. CASE Environment \/ (\E m \in Modes : Enter(m) \/ IterateOnce(m))
  BY <1>1 DEF Enter, IterateOnce, Environment, Elapse, Arrive
<1>2. CASE Reset \/ Continue \/ Leave \/ VerifyWake \/ Divide
  BY <1>2 DEF Reset, Continue, Leave, VerifyWake, Divide
<1>3. CASE ReapSourcesAndWatches \/ ReapTimeouts
  BY <1>3 DEF ReapSourcesAndWatches, ReapTimeouts, Reaped, Reapable
<1>4. CASE PollCopy \/ PollWait \/ PollUpdate \/ PollTimeouts \/ CheckWatches \/ CheckSources
           \/ PrepareSources \/ PrepareTimeouts
  BY <1>4 DEF PollCopy, PollWait, PollUpdate, PollTimeouts, CheckWatches, CheckSources,
     PrepareSources, PrepareTimeouts
<1>5. CASE PollAck \/ BeginSources \/ Recheck \/ Return \/ Invoke
  BY <1>5 DEF PollAck, BeginSources, Recheck, Return, Invoke
<1>6. CASE \E r \in {"timeouts", "watches", "sources"} : Visit(r) \/ EndRound(r)
  BY <1>6 DEF Visit, EndRound
<1> QED
  BY <1>1, <1>2, <1>3, <1>4, <1>5, <1>6 DEF LoopStep

LEMMA CallsByLoop ==
  ASSUME DataOK, MemoryInv, CallInv, FlaggedNotPolled, EnterLoop \/ LoopStep \/ Environment
  PROVE  CallInv' /\ FlaggedNotPolled'
<1>1. CASE Destroy
  <2>1. \A t \in Threads : call[t].step = "idle"
    BY <1>1 DEF Destroy, IdleCall
  <2> QED
    BY <1>1, <2>1 DEF Destroy, CallInv, FlaggedNotPolled, envVars, IdleCall
<1>2. CASE LoopStep \/ Environment \/ (\E m \in Modes : Enter(m) \/ IterateOnce(m))
  BY <1>2, LoopCalls, LoopFrees DEF CallInv, FlaggedNotPolled
<1> QED
  BY <1>1, <1>2 DEF EnterLoop

(* A call keeps hold of its own object, and of no other call's. *)
LEMMA CallsByCall ==
  ASSUME DataOK, MemoryInv, CallInv, FlaggedNotPolled,
         NEW t \in Threads, BeginCall(t) \/ FinishCall(t)
  PROVE  CallInv' /\ FlaggedNotPolled'
<1> USE DEF CallInv, FlaggedNotPolled, MemoryInv, sharedVars
<1>0. /\ \A u \in Threads : call[u] \in Calls
      /\ DOMAIN call = Threads /\ managed \subseteq Watches
      /\ Sources \cap managed = {} /\ Timeouts \cap managed = {}
  BY DEF DataOK
<1>1. CASE \E s \in Sources : RegisterSource(t, s) \/ UnregisterSource(t, s)
  BY <1>0, <1>1 DEF RegisterSource, UnregisterSource, Insert, Fresh, Held, InCall, CanCall
<1>2. CASE \E w \in Watches : RegisterWatch(t, w) \/ UnregisterWatch(t, w)
  BY <1>0, <1>2 DEF RegisterWatch, UnregisterWatch, Fresh, Held, InCall, CanCall
<1>3. CASE \E o \in Timeouts : RegisterTimeout(t, o) \/ UnregisterTimeout(t, o)
  BY <1>0, <1>3 DEF RegisterTimeout, UnregisterTimeout, Insert, Fresh, Held, CanCall
<1>4. CASE Stop(t) \/ Wakeup(t) \/ StopWake(t) \/ BreakRound(t)
  BY <1>0, <1>4 DEF Stop, Wakeup, StopWake, BreakRound, IdleCall, InCall, CanCall
<1>5. CASE InsertWatch(t)
  BY <1>0, <1>5 DEF InsertWatch, Insert, IdleCall, Calls
<1>6. CASE DropFd(t)
  BY <1>0, <1>6 DEF DropFd, InCall, Calls
<1>7. CASE FlagWatch(t)
  BY <1>0, <1>7 DEF FlagWatch, IdleCall, Calls
<1> QED
  BY <1>1, <1>2, <1>3, <1>4, <1>5, <1>6, <1>7 DEF BeginCall, FinishCall

(* Only Visit and Recheck start an execution, and not of a flagged object;    *)
(* once flagged, an object is called at most the one time already decided.    *)
LEMMA LateByLoop ==
  ASSUME DataOK, MemoryInv, LateInv, LateDispatchBound, EnterLoop \/ LoopStep \/ Environment
  PROVE  LateInv' /\ LateDispatchBound'
<1> USE Places DEF LateInv, LateDispatchBound, Goto, MemoryInv, Executing
<1>1. CASE Invoke
  BY <1>1 DEF Invoke, Once, DispatchKeeps, sharedVars, roundVars, DataOK
<1>2. CASE Recheck
  BY <1>2 DEF Recheck, DispatchKeeps, sharedVars, history, DataOK
<1>3. CASE \E r \in {"timeouts", "watches", "sources"} : Visit(r)
  BY <1>3 DEF Visit, DispatchKeeps, sharedVars, history, DataOK
<1>4. CASE EnterLoop
  BY <1>4 DEF EnterLoop, Enter, IterateOnce, Destroy, LoopKeeps, history
<1>5. CASE Environment
  BY <1>5 DEF Environment, Elapse, Arrive, EnvKeeps, history, sharedVars, roundVars
<1>6. CASE LoopStep /\ ~Invoke /\ ~Recheck
           /\ ~\E r \in {"timeouts", "watches", "sources"} : Visit(r)
  <2>1. deleteObject' = deleteObject /\ late' = late
    BY <1>6, LoopCalls
  <2>2. pc' # "invoke"
    <3>1. CASE Reset \/ Continue \/ Leave \/ VerifyWake \/ Divide \/ PollAck \/ BeginSources
      BY <3>1 DEF Reset, Continue, Leave, VerifyWake, Divide, PollAck, BeginSources
    <3>2. CASE ReapSourcesAndWatches \/ ReapTimeouts \/ PrepareSources \/ PrepareTimeouts
      BY <3>2 DEF ReapSourcesAndWatches, ReapTimeouts, PrepareSources, PrepareTimeouts
    <3>3. CASE PollCopy \/ PollWait \/ PollUpdate \/ PollTimeouts \/ CheckWatches \/ CheckSources
      BY <3>3 DEF PollCopy, PollWait, PollUpdate, PollTimeouts, CheckWatches, CheckSources
    <3>4. CASE Return \/ \E r \in {"timeouts", "watches", "sources"} : EndRound(r)
      BY <3>4 DEF Return, EndRound
    <3> QED
      BY <1>6, <3>1, <3>2, <3>3, <3>4 DEF LoopStep
  <2> QED
    BY <2>1, <2>2
<1> QED
  BY <1>1, <1>2, <1>3, <1>4, <1>5, <1>6

LEMMA LateByCall ==
  ASSUME LateInv, LateDispatchBound, NEW t \in Threads, BeginCall(t) \/ FinishCall(t)
  PROVE  LateInv' /\ LateDispatchBound'
BY DEF LateInv, LateDispatchBound, BeginCall, FinishCall, RegisterSource, UnregisterSource,
   RegisterWatch, UnregisterWatch, RegisterTimeout, UnregisterTimeout, Insert, Stop, Wakeup,
   StopWake, BreakRound, InsertWatch, DropFd, FlagWatch, sharedVars, roundVars, history

(* The inductive invariant holds: initially nothing is registered; a call     *)
(* moves an object to where CallInv expects it; the loop frees only objects   *)
(* that are flagged and that no set to dispatch holds.                        *)
THEOREM MainLoopInvariant == Spec => []MainLoopInv
<1>1. Init => MainLoopInv
  BY DEF Init, MainLoopInv, MemoryInv, CallInv, FlaggedNotPolled, LateInv, LateDispatchBound,
     IdleCall, Executing
<1>2. TypeOK /\ MainLoopInv /\ [Next]_vars => MainLoopInv'
  <2> SUFFICES ASSUME TypeOK, MainLoopInv, [Next]_vars PROVE MainLoopInv'
    OBVIOUS
  <2> USE DEF MainLoopInv, TypeOK
  <2>1. CASE \E t \in Threads : BeginCall(t) \/ FinishCall(t)
    BY <2>1, MemoryByCall, CallsByCall, LateByCall
  <2>2. CASE EnterLoop \/ LoopStep \/ Environment
    BY <2>2, MemoryByLoop, CallsByLoop, LateByLoop
  <2>3. CASE UNCHANGED vars
    BY <2>3 DEF MemoryInv, CallInv, FlaggedNotPolled, LateInv, LateDispatchBound, Executing,
       vars, sharedVars, roundVars, history
  <2> QED
    BY <2>1, <2>2, <2>3 DEF Next
<1> QED
  BY <1>1, <1>2, MainLoopType, PTL DEF Spec

(* No dispatch() on a deleted object, and no lookup of one. *)
THEOREM MainLoopMemorySafe == Spec => []NoUseAfterFree
<1>1. MainLoopInv => NoUseAfterFree
  BY DEF MainLoopInv, MemoryInv, CallInv, NoUseAfterFree
<1> QED
  BY <1>1, MainLoopInvariant, PTL

(* At most one dispatch() of an object begins after its unregistration. *)
THEOREM MainLoopLateDispatch == Spec => []LateDispatchBound
<1>1. MainLoopInv => LateDispatchBound
  BY DEF MainLoopInv
<1> QED
  BY <1>1, MainLoopInvariant, PTL

(* Only PollCopy adds to the descriptors handed to ::poll(), and it takes     *)
(* those of managedFileDescriptors_ as they are.                              *)
LEMMA PolledGrows ==
  ASSUME (\E t \in Threads : BeginCall(t) \/ FinishCall(t)) \/ EnterLoop \/ LoopStep \/ Environment
  PROVE  \/ polled' \subseteq polled
         \/ polled' = managed \cup {WakeFd} /\ UNCHANGED <<deleteObject, freed>>
<1> USE DEF pollVars, LoopKeeps, ScanKeeps, DispatchKeeps, EnvKeeps, Reap
<1>1. CASE \E t \in Threads : BeginCall(t) \/ FinishCall(t)
  BY <1>1 DEF BeginCall, FinishCall, RegisterSource, UnregisterSource, RegisterWatch,
     UnregisterWatch, RegisterTimeout, UnregisterTimeout, Insert, Stop, Wakeup, StopWake,
     BreakRound, InsertWatch, DropFd, FlagWatch
<1>2. CASE EnterLoop \/ Environment
  BY <1>2 DEF EnterLoop, Enter, IterateOnce, Destroy, Environment, Elapse, Arrive
<1>3. CASE Reset \/ Continue \/ Leave \/ VerifyWake \/ Divide \/ ReapSourcesAndWatches \/ ReapTimeouts
  BY <1>3 DEF Reset, Continue, Leave, VerifyWake, Divide, ReapSourcesAndWatches, ReapTimeouts
<1>4. CASE PrepareSources \/ PrepareTimeouts \/ PollTimeouts \/ PollAck \/ CheckWatches \/ CheckSources
  BY <1>4 DEF PrepareSources, PrepareTimeouts, PollTimeouts, PollAck, CheckWatches, CheckSources
<1>5. CASE PollCopy \/ PollWait \/ PollUpdate
  BY <1>5 DEF PollCopy, PollWait, PollUpdate, ReadyFds
<1>6. CASE BeginSources \/ Recheck \/ Invoke \/ Return
  BY <1>6 DEF BeginSources, Recheck, Invoke, Return
<1>7. CASE \E r \in {"timeouts", "watches", "sources"} : Visit(r) \/ EndRound(r)
  BY <1>7 DEF Visit, EndRound
<1> QED
  BY <1>1, <1>2, <1>3, <1>4, <1>5, <1>6, <1>7 DEF LoopStep

(* managedFileDescriptors_ holds no descriptor of a flagged or deleted watch, *)
(* and none is in poll()'s copy when it is made.  What is unregistered after  *)
(* that is polled to the end of that ::poll().                                *)
THEOREM MainLoopFlaggedNotPolled == Spec => []FlaggedNotPolled /\ CopiedUnflagged
<1>1. MainLoopInv => FlaggedNotPolled
  BY DEF MainLoopInv
<1>2. TypeOK /\ MainLoopInv /\ [Next]_vars
      => [(polled' \ polled) \cap (deleteObject' \cup freed') = {}]_vars
  <2> SUFFICES ASSUME TypeOK, MainLoopInv, Next
               PROVE  (polled' \ polled) \cap (deleteObject' \cup freed') = {}
    BY DEF vars
  <2>1. \/ polled' \subseteq polled
        \/ polled' = managed \cup {WakeFd} /\ UNCHANGED <<deleteObject, freed>>
    BY PolledGrows DEF Next
  <2>2. WakeFd \notin deleteObject \cup freed
    BY DEF TypeOK, DataOK
  <2> QED
    BY <2>1, <2>2 DEF MainLoopInv, FlaggedNotPolled
<1> QED
  BY <1>1, <1>2, MainLoopInvariant, MainLoopType, PTL DEF Spec, CopiedUnflagged

-----------------------------------------------------------------------------
(* What a round dispatches.                                                 *)

LEMMA KindsAndRounds ==
  /\ \A r \in Rounds : r \notin Executing
  /\ \A r \in Rounds : \A o \in KindOf(r) : RoundOf(o) = r /\ o \in Objects
  /\ \A o \in Objects : RoundOf(o) \in Rounds /\ o \in KindOf(RoundOf(o))
  /\ "beginSources" \notin Rounds \cup Executing
BY DEF Rounds, KindOf, RoundOf, Executing

(* The steps of the loop's thread that neither visit nor dispatch: they keep  *)
(* away from the rounds, but for where a round begins.                        *)
Outside ==
  \/ Reset \/ Continue \/ Leave \/ VerifyWake \/ Divide
  \/ ReapSourcesAndWatches \/ ReapTimeouts \/ PrepareSources \/ PrepareTimeouts
  \/ PollCopy \/ PollWait \/ PollUpdate \/ PollTimeouts \/ PollAck
  \/ CheckWatches \/ CheckSources \/ BeginSources
  \/ \E m \in Modes : Enter(m) \/ IterateOnce(m)

LEMMA OutsideRounds ==
  ASSUME Outside
  PROVE  /\ pc \notin Rounds \cup Executing /\ pc' \notin Executing
         /\ UNCHANGED <<isExecuted, visited, fired, pending>>
         /\ toDispatch \subseteq toDispatch'
<1> USE Places DEF Goto, Rounds, Executing, LoopKeeps, ScanKeeps, envVars, history, roundVars
<1>1. CASE \E m \in Modes : Enter(m) \/ IterateOnce(m)
  BY <1>1 DEF Enter, IterateOnce
<1>2. CASE Reset \/ Continue \/ Leave \/ VerifyWake \/ Divide \/ PollAck
  BY <1>2 DEF Reset, Continue, Leave, VerifyWake, Divide, PollAck
<1>3. CASE ReapSourcesAndWatches \/ ReapTimeouts
  BY <1>3 DEF ReapSourcesAndWatches, ReapTimeouts, Reap
<1>4. CASE PrepareSources \/ PrepareTimeouts
  BY <1>4 DEF PrepareSources, PrepareTimeouts
<1>5. CASE PollCopy \/ PollWait \/ PollUpdate \/ PollTimeouts
  BY <1>5 DEF PollCopy, PollWait, PollUpdate, PollTimeouts
<1>6. CASE CheckWatches \/ CheckSources \/ BeginSources
  BY <1>6 DEF CheckWatches, CheckSources, BeginSources
<1> QED  BY <1>1, <1>2, <1>3, <1>4, <1>5, <1>6 DEF Outside

(* A timeout is put into the set to dispatch as it elapses. *)
LEMMA OutsideTimeouts ==
  ASSUME Outside, NEW t \in Timeouts
  PROVE  /\ t \in elapsed => t \in elapsed'
         /\ t \in toDispatch' => t \in elapsed' \/ t \in toDispatch
         /\ t \in elapsed => (t \in toDispatch' <=> t \in toDispatch)
<1> USE DEF LoopKeeps, ScanKeeps, sharedVars, roundVars
<1>1. CASE \E m \in Modes : Enter(m) \/ IterateOnce(m)
  BY <1>1 DEF Enter, IterateOnce
<1>2. CASE Reset \/ Continue \/ Leave \/ VerifyWake \/ Divide \/ PollAck
  BY <1>2 DEF Reset, Continue, Leave, VerifyWake, Divide, PollAck
<1>3. CASE ReapSourcesAndWatches \/ ReapTimeouts
  BY <1>3 DEF ReapSourcesAndWatches, ReapTimeouts, Reap
<1>4. CASE PrepareSources \/ PrepareTimeouts
  BY <1>4 DEF PrepareSources, PrepareTimeouts, ReadySources, NewlyElapsed, Live
<1>5. CASE PollCopy \/ PollWait \/ PollUpdate \/ PollTimeouts
  BY <1>5 DEF PollCopy, PollWait, PollUpdate, PollTimeouts, NewlyElapsed, Live
<1>6. CASE CheckWatches \/ CheckSources \/ BeginSources
  BY <1>6 DEF CheckWatches, CheckSources, BeginSources, DispatchKeeps, ReadySources, Live
<1> QED  BY <1>1, <1>2, <1>3, <1>4, <1>5, <1>6 DEF Outside

(* A watch is put there for what poll() found, and nothing takes events between *)
(* poll() and check().                                                        *)
LEMMA OutsideWatches ==
  ASSUME DataOK, PolledInv, Outside
  PROVE  /\ PolledInv'
         /\ \A w \in Watches : w \in toDispatch' => w \in toDispatch \/ pending[w] > 0
<1> USE Places DEF PolledInv, Goto, LoopKeeps, ScanKeeps, pollVars, envVars, roundVars
<1>1. CASE \E m \in Modes : Enter(m) \/ IterateOnce(m)
  BY <1>1 DEF Enter, IterateOnce
<1>2. CASE Reset \/ Continue \/ Leave \/ VerifyWake \/ Divide \/ PollAck
  BY <1>2 DEF Reset, Continue, Leave, VerifyWake, Divide, PollAck
<1>3. CASE ReapSourcesAndWatches \/ ReapTimeouts
  BY <1>3 DEF ReapSourcesAndWatches, ReapTimeouts, Reap
<1>4. CASE PrepareSources \/ PrepareTimeouts
  BY <1>4 DEF PrepareSources, PrepareTimeouts, ReadySources, NewlyElapsed, Live
<1>5. CASE PollCopy \/ PollWait \/ PollUpdate \/ PollTimeouts
  BY <1>5 DEF PollCopy, PollWait, PollUpdate, PollTimeouts, NewlyElapsed, Live, ReadyFds
<1>6. CASE CheckWatches \/ CheckSources \/ BeginSources
  BY <1>6 DEF CheckWatches, CheckSources, BeginSources, DispatchKeeps, ReadySources, Live
<1> QED  BY <1>1, <1>2, <1>3, <1>4, <1>5, <1>6 DEF Outside

LEMMA DispatchByOutside ==
  ASSUME DataOK, MemoryInv, DispatchInv, Outside
  PROVE  DispatchInv'
<1>1. /\ pc \notin Rounds \cup Executing /\ pc' \notin Executing
      /\ UNCHANGED <<isExecuted, visited, fired, pending>>
      /\ toDispatch \subseteq toDispatch'
  BY OutsideRounds
<1>2. visited = {} /\ isExecuted = {}
  BY <1>1 DEF DispatchInv, RoundInv, MemoryInv
<1>3. RoundInv'  BY <1>1, <1>2 DEF RoundInv
<1>4. TimeoutInv'
  BY <1>1, <1>2, OutsideTimeouts DEF DispatchInv, TimeoutInv
<1>5. PolledInv' /\ WatchHasEvent'
  BY <1>1, <1>2, OutsideWatches DEF DispatchInv, WatchHasEvent
<1>6. FiresOnce'  BY <1>1 DEF DispatchInv, FiresOnce
<1> QED  BY <1>3, <1>4, <1>5, <1>6 DEF DispatchInv

(* A visit: what it is about to execute has been visited just now. *)
LEMMA DispatchByVisit ==
  ASSUME DataOK, MemoryInv, DispatchInv, NEW r \in Rounds, Visit(r)
  PROVE  DispatchInv'
<1>1. PICK o \in (toDispatch \cap KindOf(r)) \ visited :
        /\ visited' = visited \cup {o}
        /\ \/ UNCHANGED isExecuted /\ pc' = r
           \/ isExecuted' = isExecuted \cup {o} /\ pc' = IF r = "sources" THEN "recheck" ELSE "invoke"
  BY DEF Visit, Goto
<1>2. /\ pc = r /\ UNCHANGED <<toDispatch, elapsed, fired, pending, polled, revents>>
  BY DEF Visit, DispatchKeeps, envVars, history, sharedVars, pollVars
<1>3. isExecuted = {} /\ visited \subseteq KindOf(r) /\ RoundOf(o) = r
  BY <1>1, <1>2, KindsAndRounds DEF DispatchInv, RoundInv, MemoryInv
<1>4. RoundInv'
  <2>1. CASE UNCHANGED isExecuted /\ pc' = r
    BY <1>1, <1>3, <2>1, KindsAndRounds DEF RoundInv, Rounds
  <2>2. CASE isExecuted' = {o} /\ pc' = IF r = "sources" THEN "recheck" ELSE "invoke"
    BY <1>1, <1>3, <2>2, KindsAndRounds DEF RoundInv, Rounds, Executing, KindOf
  <2> QED  BY <1>1, <1>3, <2>1, <2>2
<1>5. TimeoutInv'
  BY <1>1, <1>2, <1>3 DEF DispatchInv, TimeoutInv, Rounds
<1>6. PolledInv'  BY <1>1, <1>2 DEF DispatchInv, PolledInv, Rounds
<1>7. WatchHasEvent' /\ FiresOnce'
  BY <1>1, <1>2 DEF DispatchInv, WatchHasEvent, FiresOnce
<1> QED  BY <1>4, <1>5, <1>6, <1>7 DEF DispatchInv

(* The end of a round clears what it was to dispatch, visited or not. *)
LEMMA DispatchByEndRound ==
  ASSUME DataOK, MemoryInv, DispatchInv, NEW r \in Rounds, EndRound(r)
  PROVE  DispatchInv'
<1>1. /\ pc = r /\ visited' = {} /\ toDispatch' = toDispatch \ KindOf(r) /\ pc' = NextRound(r)
      /\ UNCHANGED <<isExecuted, elapsed, fired, pending, polled, revents>>
  BY DEF EndRound, Goto, DispatchKeeps, envVars, history, sharedVars, pollVars
<1>2. isExecuted = {} /\ visited \subseteq KindOf(r)
  BY <1>1, KindsAndRounds DEF DispatchInv, RoundInv, MemoryInv
<1>3. toDispatch' \subseteq toDispatch \ visited  BY <1>1, <1>2
<1>4. RoundInv' /\ PolledInv'
  BY <1>1, <1>2, Places DEF RoundInv, PolledInv, Rounds, Executing
<1>5. TimeoutInv'
  BY <1>1, <1>2, <1>3 DEF DispatchInv, TimeoutInv
<1>6. WatchHasEvent' /\ FiresOnce'
  BY <1>1, <1>3 DEF DispatchInv, WatchHasEvent, FiresOnce
<1> QED  BY <1>4, <1>5, <1>6 DEF DispatchInv

(* dispatch() itself, before and after. *)
LEMMA DispatchByDispatch ==
  ASSUME DataOK, MemoryInv, DispatchInv, Recheck \/ Invoke \/ Return
  PROVE  DispatchInv'
<1> USE DEF Goto, DispatchKeeps, sharedVars, pollVars, history, envVars, roundVars
<1>1. CASE Recheck \/ Return
  <2>1. /\ pc \in Executing /\ isExecuted # {}
        /\ UNCHANGED <<toDispatch, visited, elapsed, fired, pending, polled, revents>>
    BY <1>1 DEF Recheck, Return, Executing
  <2>2. PICK o \in isExecuted :
          \/ isExecuted' = isExecuted \ {o} /\ pc' = RoundOf(o)
          \/ /\ UNCHANGED isExecuted /\ o \in Sources
             /\ pc' = IF pc = "recheck" THEN "invoke" ELSE "recheck"
    <3>1. CASE Recheck
      <4>1. isExecuted \subseteq Sources  BY <3>1 DEF Recheck, DispatchInv, RoundInv
      <4>2. \A s \in Sources : RoundOf(s) = "sources"  BY DEF RoundOf
      <4> QED  BY <3>1, <4>1, <4>2 DEF Recheck
    <3>2. CASE Return  BY <3>2 DEF Return
    <3> QED  BY <1>1, <3>1, <3>2
  <2>3. isExecuted = {o} /\ o \in visited /\ visited \subseteq KindOf(RoundOf(o)) /\ o \in Objects
    BY <2>2 DEF MemoryInv, DispatchInv, RoundInv, DataOK
  <2>4. RoundOf(o) \in Rounds  BY <2>3, KindsAndRounds
  <2>5. CASE isExecuted' = {} /\ pc' = RoundOf(o)
    <3>1. RoundInv' /\ PolledInv'
      BY <2>1, <2>3, <2>4, <2>5, KindsAndRounds DEF RoundInv, PolledInv, Rounds
    <3>2. TimeoutInv' /\ WatchHasEvent' /\ FiresOnce'
      BY <2>1, <2>5 DEF DispatchInv, TimeoutInv, WatchHasEvent, FiresOnce
    <3> QED  BY <3>1, <3>2 DEF DispatchInv
  <2>6. CASE UNCHANGED isExecuted /\ o \in Sources /\ pc' \in {"invoke", "recheck"}
    <3>1. RoundInv' /\ PolledInv'
      BY <2>1, <2>3, <2>6 DEF RoundInv, PolledInv, Rounds, Executing
    <3>2. TimeoutInv' /\ WatchHasEvent' /\ FiresOnce'
      BY <2>1, <2>3, <2>6 DEF DispatchInv, TimeoutInv, WatchHasEvent, FiresOnce
    <3> QED  BY <3>1, <3>2 DEF DispatchInv
  <2> QED  BY <2>2, <2>3, <2>5, <2>6
<1>2. CASE Invoke
  <2>1. /\ pc = "invoke" /\ pc' = "callback"
        /\ UNCHANGED <<isExecuted, toDispatch, visited, elapsed, polled, revents>>
    BY <1>2 DEF Invoke
  <2>2. PICK o \in isExecuted :
          /\ pending' = IF o \in Timeouts \/ pending[o] = 0
                          THEN pending ELSE [pending EXCEPT ![o] = @ - 1]
          /\ fired' = IF o \in Timeouts THEN [fired EXCEPT ![o] = Once(@)] ELSE fired
    BY <1>2 DEF Invoke
  <2>3. o \in visited /\ o \in Objects  BY <2>2 DEF DispatchInv, RoundInv, DataOK
  <2>4. \A t \in Timeouts : t # o => fired'[t] = fired[t]
    BY <2>2 DEF DataOK
  <2>5. o \in Timeouts => fired[o] = 0 /\ fired'[o] = 1 /\ o \in elapsed
    BY <2>1, <2>2 DEF DataOK, DispatchInv, TimeoutInv, Once, MemoryInv
  <2>6. \A w \in Watches : w # o => pending'[w] = pending[w]
    BY <2>2 DEF DataOK
  <2>7. RoundInv' /\ PolledInv'
    BY <2>1 DEF DispatchInv, RoundInv, PolledInv, Rounds, Executing
  <2>8. TimeoutInv'
    <3> SUFFICES ASSUME NEW t \in Timeouts
                 PROVE  /\ t \notin elapsed => fired'[t] = 0 /\ t \notin toDispatch
                        /\ t \in toDispatch \ visited => fired'[t] = 0
      BY <2>1 DEF TimeoutInv
    <3>1. CASE t = o  BY <2>3, <2>5, <3>1
    <3>2. CASE t # o  BY <2>4, <3>2 DEF DispatchInv, TimeoutInv
    <3> QED  BY <3>1, <3>2
  <2>9. WatchHasEvent'  BY <2>1, <2>3, <2>6 DEF DispatchInv, WatchHasEvent
  <2>10. FiresOnce'  BY <2>4, <2>5 DEF DispatchInv, FiresOnce
  <2> QED  BY <2>7, <2>8, <2>9, <2>10 DEF DispatchInv
<1> QED  BY <1>1, <1>2

(* Neither the registration calls nor the environment take an event away. *)
LEMMA DispatchByOthers ==
  ASSUME DataOK, DispatchInv,
         (\E t \in Threads : BeginCall(t) \/ FinishCall(t)) \/ Environment \/ Destroy
  PROVE  DispatchInv'
<1>1. CASE \E t \in Threads : BeginCall(t) \/ FinishCall(t)
  <2>1. PICK t \in Threads : BeginCall(t) \/ FinishCall(t)  BY <1>1
  <2>2. /\ UNCHANGED <<pc, isExecuted, toDispatch, visited, elapsed, fired, pending, polled>>
        /\ revents' \subseteq revents
    BY <2>1 DEF BeginCall, FinishCall, RegisterSource, UnregisterSource, RegisterWatch,
       UnregisterWatch, RegisterTimeout, UnregisterTimeout, Insert, Stop, Wakeup, StopWake,
       BreakRound, InsertWatch, DropFd, FlagWatch, sharedVars, roundVars, envVars, pollVars,
       history
  <2> QED
    BY <2>2 DEF DispatchInv, RoundInv, TimeoutInv, PolledInv, FiresOnce, WatchHasEvent
<1>2. CASE Environment
  <2>1. /\ UNCHANGED <<pc, isExecuted, toDispatch, visited, elapsed, fired, polled, revents>>
        /\ \A w \in Watches : pending'[w] >= pending[w]
    BY <1>2 DEF Environment, Elapse, Arrive, EnvKeeps, sharedVars, roundVars, pollVars,
       history, DataOK
  <2>2. \A w \in Watches : pending[w] > 0 => pending'[w] > 0
    <3>1. \A w \in Watches : pending[w] \in Nat /\ pending'[w] \in Nat
      BY <1>2, LoopType DEF DataOK
    <3> QED  BY <2>1, <3>1
  <2>3. RoundInv' /\ TimeoutInv' /\ FiresOnce'
    BY <2>1 DEF DispatchInv, RoundInv, TimeoutInv, FiresOnce
  <2>4. PolledInv' /\ WatchHasEvent'
    BY <2>1, <2>2 DEF DispatchInv, PolledInv, WatchHasEvent
  <2> QED  BY <2>3, <2>4 DEF DispatchInv
<1>3. CASE Destroy
  <2>1. /\ pc = "off" /\ pc' = "destroyed" /\ toDispatch' = {} /\ visited' = {}
        /\ UNCHANGED <<isExecuted, elapsed, fired>>
    BY <1>3 DEF Destroy, Goto, history
  <2> QED
    BY <2>1 DEF DispatchInv, RoundInv, TimeoutInv, PolledInv, FiresOnce, WatchHasEvent,
       Rounds, Executing
<1> QED  BY <1>1, <1>2, <1>3

THEOREM MainLoopDispatch == Spec => []DispatchInv
<1>1. Init => DispatchInv
  BY DEF Init, DispatchInv, RoundInv, TimeoutInv, PolledInv, FiresOnce, WatchHasEvent, Rounds
<1>2. TypeOK /\ MainLoopInv /\ DispatchInv /\ [Next]_vars => DispatchInv'
  <2> SUFFICES ASSUME TypeOK, MainLoopInv, DispatchInv, [Next]_vars  PROVE DispatchInv'
    OBVIOUS
  <2> USE DEF TypeOK, MainLoopInv
  <2>1. CASE (\E t \in Threads : BeginCall(t) \/ FinishCall(t)) \/ Environment \/ Destroy
    BY <2>1, DispatchByOthers
  <2>2. CASE Outside  BY <2>2, DispatchByOutside
  <2>3. CASE \E r \in Rounds : Visit(r)  BY <2>3, DispatchByVisit
  <2>4. CASE \E r \in Rounds : EndRound(r)  BY <2>4, DispatchByEndRound
  <2>5. CASE Recheck \/ Invoke \/ Return  BY <2>5, DispatchByDispatch
  <2>6. CASE UNCHANGED vars
    BY <2>6 DEF DispatchInv, RoundInv, TimeoutInv, PolledInv, FiresOnce, WatchHasEvent,
       vars, sharedVars, roundVars, pollVars, envVars, history
  <2> QED
    BY <2>1, <2>2, <2>3, <2>4, <2>5, <2>6 DEF Next, EnterLoop, LoopStep, Outside, Rounds
<1> QED
  BY <1>1, <1>2, MainLoopType, MainLoopInvariant, PTL DEF Spec

(* No timeout is dispatched twice, whichever entry points the loop is entered *)
(* by and however an unregistration breaks a round.                           *)
THEOREM MainLoopFiresOnce == Spec => []FiresOnce
<1>1. DispatchInv => FiresOnce  BY DEF DispatchInv
<1> QED  BY <1>1, MainLoopDispatch, PTL

(* The dispatch of a watch finds the event that poll() reported. *)
THEOREM MainLoopWatchHasEvent == Spec => []WatchHasEvent
<1>1. DispatchInv => WatchHasEvent  BY DEF DispatchInv
<1> QED  BY <1>1, MainLoopDispatch, PTL

-----------------------------------------------------------------------------
(* The contract of both main loops.                                         *)
abstract == <<stages, isExecuted, chosen, exists>>

(* Only an object whose registers or flag a step changes is at another stage. *)
LEMMA StageBecomes ==
  ASSUME NEW S, NEW stage, \A o \in Objects : Stage(o)' = IF o \in S THEN stage ELSE Stage(o)
  PROVE  Contract!Become(S, stage)
<1>1. stages' = [o \in Objects |-> Stage(o)']  BY DEF stages
<1>2. \A o \in Objects : stages[o] = Stage(o)  BY DEF stages
<1> HIDE DEF Stage, Objects
<1> QED  BY <1>1, <1>2 DEF Contract!Become

LEMMA StagesKept ==
  ASSUME UNCHANGED <<registered, deleteObject, freed>>
  PROVE  stages' = stages
BY DEF stages, Stage

LEMMA StageOf ==
  ASSUME MemoryInv, NEW o \in Objects
  PROVE  /\ stages[o] = Stage(o)
         /\ Stage(o) = "new" <=> o \notin registered \cup freed
         /\ Stage(o) = "registered" <=> o \in registered \ deleteObject
         /\ Stage(o) = "unregistered" <=> o \in registered \cap deleteObject
         /\ Stage(o) = "deleted" <=> o \in freed
BY DEF stages, Stage, MemoryInv

LEMMA OutsideStaysOpen ==
  ASSUME Outside
  PROVE  pc # "destroyed" /\ pc' # "destroyed"
<1> USE Places DEF Goto
<1>1. CASE \E m \in Modes : Enter(m) \/ IterateOnce(m)
  BY <1>1 DEF Enter, IterateOnce
<1>2. CASE Reset \/ Continue \/ Leave \/ VerifyWake \/ Divide \/ PollAck
  BY <1>2 DEF Reset, Continue, Leave, VerifyWake, Divide, PollAck
<1>3. CASE ReapSourcesAndWatches \/ ReapTimeouts \/ PrepareSources \/ PrepareTimeouts
  BY <1>3 DEF ReapSourcesAndWatches, ReapTimeouts, PrepareSources, PrepareTimeouts
<1>4. CASE PollCopy \/ PollWait \/ PollUpdate \/ PollTimeouts
  BY <1>4 DEF PollCopy, PollWait, PollUpdate, PollTimeouts
<1>5. CASE CheckWatches \/ CheckSources \/ BeginSources
  BY <1>5 DEF CheckWatches, CheckSources, BeginSources
<1> QED  BY <1>1, <1>2, <1>3, <1>4, <1>5 DEF Outside

(* Only the destructor ends the loop, with no call under way. *)
LEMMA ClosedKept ==
  ASSUME DataOK, ClosedInv, [Next]_vars
  PROVE  ClosedInv'
<1>1. CASE \E t \in Threads : BeginCall(t) \/ FinishCall(t)
  <2>1. PICK t \in Threads : BeginCall(t) \/ FinishCall(t)  BY <1>1
  <2>2. pc' = pc
    BY <2>1 DEF BeginCall, FinishCall, RegisterSource, UnregisterSource, RegisterWatch,
       UnregisterWatch, RegisterTimeout, UnregisterTimeout, Stop, Wakeup, StopWake,
       BreakRound, InsertWatch, DropFd, FlagWatch
  <2>3. pc # "destroyed"
    <3>1. CASE BeginCall(t)
      BY <3>1 DEF BeginCall, RegisterSource, UnregisterSource, RegisterWatch,
         UnregisterWatch, RegisterTimeout, UnregisterTimeout, Stop, Wakeup, CanCall
    <3>2. CASE FinishCall(t)
      <4>1. call[t] # IdleCall
        BY <3>2 DEF FinishCall, StopWake, BreakRound, InsertWatch, DropFd, FlagWatch, IdleCall
      <4> QED  BY <4>1 DEF ClosedInv
    <3> QED  BY <2>1, <3>1, <3>2
  <2> QED  BY <2>2, <2>3 DEF ClosedInv
<1>2. CASE Outside \/ (\E r \in Rounds : Visit(r) \/ EndRound(r)) \/ Recheck \/ Invoke \/ Return
  <2>1. pc' # "destroyed"
    <3>1. CASE Outside  BY <3>1, OutsideStaysOpen
    <3>2. CASE (\E r \in Rounds : Visit(r) \/ EndRound(r)) \/ Recheck \/ Invoke \/ Return
      BY <3>2, Places DEF Visit, EndRound, Recheck, Invoke, Return, Goto, Rounds
    <3> QED  BY <1>2, <3>1, <3>2
  <2> QED  BY <2>1 DEF ClosedInv
<1>3. CASE Destroy  BY <1>3 DEF Destroy, ClosedInv
<1>4. CASE Environment
  BY <1>4 DEF Environment, Elapse, Arrive, EnvKeeps, ClosedInv
<1>5. CASE UNCHANGED vars  BY <1>5 DEF vars, ClosedInv
<1> QED
  BY <1>1, <1>2, <1>3, <1>4, <1>5 DEF Next, EnterLoop, LoopStep, Outside, Rounds

(* A registration call makes an object registered or unregistered, in the one *)
(* step in which others can see it, or changes nothing of the contract's.     *)
LEMMA ContractByCall ==
  ASSUME DataOK, MemoryInv, CallInv, ClosedInv, NEW t \in Threads, BeginCall(t) \/ FinishCall(t)
  PROVE  Contract!Next \/ UNCHANGED abstract
<1> DEFINE Kept == UNCHANGED <<isExecuted, pc>>
<1>1. ASSUME NEW o \in Objects, o \notin registered \cup freed, pc # "destroyed",
             registered' = registered \cup {o}, UNCHANGED <<deleteObject, freed>>, Kept
      PROVE  Contract!Next
  <2>1. \A p \in Objects : Stage(p)' = IF p \in {o} THEN "registered" ELSE Stage(p)
    BY <1>1 DEF Stage, MemoryInv
  <2>2. Contract!Become({o}, "registered")  BY <2>1, StageBecomes
  <2>3. stages[o] = "new" /\ exists /\ UNCHANGED <<isExecuted, chosen, exists>>
    BY <1>1, StageOf DEF exists, chosen
  <2>4. Contract!Register(o)  BY <2>2, <2>3 DEF Contract!Register
  <2> QED  BY <2>4 DEF Contract!Next
<1>2. ASSUME NEW o \in Objects, o \in registered \ deleteObject, pc # "destroyed",
             deleteObject' = deleteObject \cup {o}, UNCHANGED <<registered, freed>>, Kept
      PROVE  Contract!Next
  <2>1. \A p \in Objects : Stage(p)' = IF p \in {o} THEN "unregistered" ELSE Stage(p)
    BY <1>2 DEF Stage, MemoryInv
  <2>2. Contract!Become({o}, "unregistered")  BY <2>1, StageBecomes
  <2>3. stages[o] = "registered" /\ exists /\ UNCHANGED <<isExecuted, chosen, exists>>
    BY <1>2, StageOf DEF exists, chosen
  <2>4. Contract!Unregister(o)  BY <2>2, <2>3 DEF Contract!Unregister
  <2> QED  BY <2>4 DEF Contract!Next
<1>3. ASSUME UNCHANGED <<registered, deleteObject, freed>>, Kept
      PROVE  UNCHANGED abstract
  BY <1>3, StagesKept DEF abstract, chosen, exists
<1>0. FinishCall(t) => pc # "destroyed"
  <2>1. FinishCall(t) => call[t] # IdleCall
    BY DEF FinishCall, StopWake, BreakRound, InsertWatch, DropFd, FlagWatch, IdleCall
  <2> QED  BY <2>1 DEF ClosedInv
<1> USE DEF roundVars, sharedVars
<1>4. CASE \E s \in Sources : RegisterSource(t, s)
  BY <1>1, <1>4 DEF RegisterSource, CanCall, Fresh, Insert
<1>5. CASE \E o \in Timeouts : RegisterTimeout(t, o)
  BY <1>1, <1>5 DEF RegisterTimeout, CanCall, Fresh, Insert
<1>6. CASE InsertWatch(t)
  <2>1. call[t].obj \in Objects /\ call[t].obj \notin registered \cup freed
    BY <1>6, CallObjects DEF InsertWatch, CallInv, DataOK
  <2>2. pc # "destroyed"  BY <1>0, <1>6 DEF FinishCall
  <2> QED  BY <1>1, <1>6, <2>1, <2>2 DEF InsertWatch, Insert
<1>7. CASE \E s \in Sources : UnregisterSource(t, s)
  BY <1>2, <1>7 DEF UnregisterSource, CanCall, Held
<1>8. CASE \E o \in Timeouts : UnregisterTimeout(t, o)
  BY <1>2, <1>8 DEF UnregisterTimeout, CanCall, Held
<1>9. CASE FlagWatch(t)
  <2>1. call[t].obj \in Objects /\ call[t].obj \in registered \ deleteObject
    BY <1>9, CallObjects DEF FlagWatch, CallInv, DataOK
  <2>2. pc # "destroyed"  BY <1>0, <1>9 DEF FinishCall
  <2> QED  BY <1>2, <1>9, <2>1, <2>2 DEF FlagWatch
<1>10. CASE \/ \E w \in Watches : RegisterWatch(t, w) \/ UnregisterWatch(t, w)
            \/ Stop(t) \/ Wakeup(t) \/ StopWake(t) \/ BreakRound(t) \/ DropFd(t)
  BY <1>3, <1>10
  DEF RegisterWatch, UnregisterWatch, Stop, Wakeup, StopWake, BreakRound, DropFd
<1> QED
  BY <1>4, <1>5, <1>6, <1>7, <1>8, <1>9, <1>10 DEF BeginCall, FinishCall

(* What is deleted was unregistered, and is not held. *)
LEMMA ContractByReap ==
  ASSUME MemoryInv, NEW gone, gone \subseteq Reapable(Objects), Reap(gone),
         pc \notin Executing \cup {"destroyed"}, pc' \notin Executing \cup {"destroyed"}
  PROVE  Contract!Next
<1>1. gone \subseteq Objects /\ \A o \in gone : stages[o] = "unregistered" /\ o \notin isExecuted
  BY StageOf DEF Reapable
<1>2. /\ registered' = registered \ gone /\ freed' = freed \cup gone
      /\ UNCHANGED <<deleteObject, isExecuted>>
  BY DEF Reap, roundVars
<1>3. \A o \in Objects : Stage(o)' = IF o \in gone THEN "deleted" ELSE Stage(o)
  BY <1>2 DEF Stage, Reapable
<1>4. Contract!Become(gone, "deleted")  BY <1>3, StageBecomes
<1>5. UNCHANGED <<isExecuted, chosen, exists>>
  BY <1>2 DEF chosen, exists, Executing
<1>6. Contract!Delete(gone)  BY <1>1, <1>4, <1>5 DEF Contract!Delete
<1> QED  BY <1>1, <1>6 DEF Contract!Next

LEMMA ContractByDestroy ==
  ASSUME MemoryInv, Destroy
  PROVE  Contract!Next
<1>1. /\ pc = "off" /\ pc' = "destroyed" /\ isExecuted = {} /\ isExecuted' = {}
      /\ registered' = {} /\ freed' = freed \cup registered /\ deleteObject' = deleteObject
  BY DEF Destroy, Goto, MemoryInv, Executing
<1>2. \A o \in Objects :
        Stage(o)' = IF o \in {p \in Objects : stages[p] # "new"} THEN "deleted" ELSE Stage(o)
  <2>1. ASSUME NEW o \in Objects
        PROVE  Stage(o)' = IF stages[o] # "new" THEN "deleted" ELSE Stage(o)
    BY <1>1, StageOf DEF Stage
  <2> QED  BY <2>1
<1>3. Contract!Become({o \in Objects : stages[o] # "new"}, "deleted")
  BY <1>2, StageBecomes
<1>4. exists /\ exists' = FALSE /\ chosen = {} /\ chosen' = {}
  BY <1>1 DEF exists, chosen
<1>5. Contract!Close  BY <1>1, <1>3, <1>4 DEF Contract!Close
<1> QED  BY <1>5 DEF Contract!Next

(* The rounds: an object is held from its visit on, and every dispatch() of   *)
(* it follows a test of its flag.                                             *)
LEMMA ContractByRound ==
  ASSUME DataOK, MemoryInv, RoundInv,
         (\E r \in Rounds : Visit(r) \/ EndRound(r)) \/ Recheck \/ Invoke \/ Return
  PROVE  Contract!Next \/ UNCHANGED abstract
<1>1. UNCHANGED <<registered, deleteObject, freed>>
  BY DEF Visit, EndRound, Recheck, Invoke, Return, DispatchKeeps, sharedVars
<1>2. stages' = stages  BY <1>1, StagesKept
<1>3. pc # "destroyed" /\ pc' # "destroyed"
  BY Places DEF Visit, EndRound, Recheck, Invoke, Return, Goto, Rounds
<1>4. exists /\ exists' = exists  BY <1>3 DEF exists
<1>5. CASE \E r \in Rounds : Visit(r)
  <2>1. PICK r \in Rounds : Visit(r)  BY <1>5
  <2>2. pc = r /\ isExecuted = {} /\ chosen = {}
    BY <2>1, KindsAndRounds DEF Visit, MemoryInv, chosen, Executing
  <2>3. PICK o \in toDispatch :
          IF o \in deleteObject
            THEN isExecuted' = isExecuted /\ pc' = r
            ELSE isExecuted' = isExecuted \cup {o} /\ pc' \in {"recheck", "invoke"}
    BY <2>1 DEF Visit, Goto
  <2>4. CASE o \in deleteObject
    <3>1. isExecuted' = isExecuted /\ chosen' = chosen
      BY <2>2, <2>3, <2>4 DEF chosen
    <3> QED  BY <1>2, <1>4, <3>1 DEF abstract
  <2>5. CASE o \notin deleteObject
    <3>1. o \in Objects /\ stages[o] = "registered"
      BY <2>5, StageOf DEF MemoryInv, DataOK
    <3>2. isExecuted' = {o} /\ chosen' \in {{}, {o}}
      BY <2>2, <2>3, <2>5 DEF chosen
    <3>3. Contract!Hold(o)  BY <1>2, <1>4, <2>2, <3>1, <3>2 DEF Contract!Hold
    <3> QED  BY <3>1, <3>3 DEF Contract!Next
  <2> QED  BY <2>4, <2>5
<1>6. CASE \E r \in Rounds : EndRound(r)
  <2>1. isExecuted = {} /\ isExecuted' = {}
    BY <1>6, KindsAndRounds DEF EndRound, MemoryInv
  <2>2. chosen = {} /\ chosen' = {}  BY <2>1 DEF chosen
  <2> QED  BY <1>2, <1>4, <2>1, <2>2 DEF abstract
<1>7. CASE Recheck
  <2>1. PICK s \in isExecuted :
          IF s \in deleteObject
            THEN isExecuted' = isExecuted \ {s} /\ pc' = "sources"
            ELSE isExecuted' = isExecuted /\ pc' = "invoke"
    BY <1>7 DEF Recheck, Goto
  <2>2. isExecuted = {s} /\ s \in registered /\ s \in Objects
    BY <2>1 DEF MemoryInv, DataOK
  <2>3. chosen = {}  BY <1>7 DEF Recheck, chosen
  <2>4. CASE s \in deleteObject
    <3>1. isExecuted' = {} /\ chosen' = {}  BY <2>1, <2>2, <2>4 DEF chosen
    <3>2. Contract!Finish  BY <1>2, <1>4, <3>1 DEF Contract!Finish
    <3> QED  BY <3>2 DEF Contract!Next
  <2>5. CASE s \notin deleteObject
    <3>1. isExecuted' = isExecuted /\ chosen' = isExecuted
      BY <2>1, <2>5 DEF chosen
    <3>2. stages[s] = "registered"  BY <2>2, <2>5, StageOf
    <3>3. Contract!Decide
      BY <1>2, <1>4, <2>2, <2>3, <3>1, <3>2 DEF Contract!Decide
    <3> QED  BY <3>3 DEF Contract!Next
  <2> QED  BY <2>4, <2>5
<1>8. CASE Invoke
  <2>1. isExecuted' = isExecuted /\ chosen' = chosen
    BY <1>8 DEF Invoke, Goto, roundVars, chosen
  <2> QED  BY <1>2, <1>4, <2>1 DEF abstract
<1>9. CASE Return
  <2>1. PICK o \in isExecuted :
          \/ isExecuted' = isExecuted /\ pc' = "recheck"
          \/ isExecuted' = isExecuted \ {o} /\ pc' \in Rounds
    BY <1>9, Places DEF Return, Goto, Rounds
  <2>2. isExecuted = {o}  BY <2>1 DEF MemoryInv
  <2>3. isExecuted' \in {{}, isExecuted} /\ chosen' = {}
    BY <2>1, <2>2 DEF chosen, Rounds
  <2>4. Contract!Finish  BY <1>2, <1>4, <2>3 DEF Contract!Finish
  <2> QED  BY <2>4 DEF Contract!Next
<1> QED  BY <1>5, <1>6, <1>7, <1>8, <1>9

(* The other steps of the loop hold nothing, and but for the sweeps delete    *)
(* nothing.                                                                   *)
LEMMA ContractByOutside ==
  ASSUME MemoryInv, Outside
  PROVE  Contract!Next \/ UNCHANGED abstract
<1>1. /\ pc \notin Executing \cup {"destroyed"} /\ pc' \notin Executing \cup {"destroyed"}
      /\ isExecuted' = isExecuted
  BY OutsideRounds, OutsideStaysOpen
<1>2. CASE ReapSourcesAndWatches
  <2>1. Reaped(Sources) \cup Reaped(Watches) \subseteq Reapable(Objects)
    BY DEF Reaped, Reapable
  <2> QED  BY <1>1, <1>2, <2>1, ContractByReap DEF ReapSourcesAndWatches
<1>3. CASE ReapTimeouts
  <2>1. Reaped(Timeouts) \subseteq Reapable(Objects)  BY DEF Reaped, Reapable
  <2> QED  BY <1>1, <1>3, <2>1, ContractByReap DEF ReapTimeouts
<1>4. CASE ~ReapSourcesAndWatches /\ ~ReapTimeouts
  <2>1. UNCHANGED <<registered, deleteObject, freed>>
    BY <1>4 DEF Outside, Reset, Continue, Leave, VerifyWake, Divide, PrepareSources,
       PrepareTimeouts, PollCopy, PollWait, PollUpdate, PollTimeouts, PollAck, CheckWatches,
       CheckSources, BeginSources, Enter, IterateOnce, LoopKeeps, ScanKeeps, DispatchKeeps,
       sharedVars
  <2>2. chosen' = chosen /\ exists' = exists
    BY <1>1 DEF chosen, exists, Executing
  <2> QED  BY <1>1, <2>1, <2>2, StagesKept DEF abstract
<1> QED  BY <1>2, <1>3, <1>4

(* The loop of the verification tests keeps the contract, for any number of   *)
(* clients and whatever the callbacks call.                                   *)
THEOREM MainLoopImplements == Spec => ImplementsContract
<1>1. Init => Contract!Init /\ ClosedInv
  <2> SUFFICES ASSUME Init  PROVE Contract!Init /\ ClosedInv
    OBVIOUS
  <2>1. stages = [o \in Objects |-> "new"]  BY DEF Init, stages, Stage
  <2>2. isExecuted = {} /\ chosen = {} /\ exists = TRUE  BY DEF Init, chosen, exists
  <2>3. ClosedInv  BY DEF Init, ClosedInv
  <2> QED  BY <2>1, <2>2, <2>3 DEF Contract!Init
<1>2. TypeOK /\ ClosedInv /\ [Next]_vars => ClosedInv'
  BY ClosedKept DEF TypeOK
<1>3. TypeOK /\ MainLoopInv /\ DispatchInv /\ ClosedInv /\ [Next]_vars
        => [Contract!Next]_abstract
  <2> SUFFICES ASSUME TypeOK, MainLoopInv, DispatchInv, ClosedInv, [Next]_vars
               PROVE  Contract!Next \/ UNCHANGED abstract
    OBVIOUS
  <2> USE DEF TypeOK, MainLoopInv, DispatchInv
  <2>1. CASE \E t \in Threads : BeginCall(t) \/ FinishCall(t)
    BY <2>1, ContractByCall
  <2>2. CASE Outside  BY <2>2, ContractByOutside
  <2>3. CASE (\E r \in Rounds : Visit(r) \/ EndRound(r)) \/ Recheck \/ Invoke \/ Return
    BY <2>3, ContractByRound
  <2>4. CASE Destroy  BY <2>4, ContractByDestroy
  <2>5. CASE Environment \/ UNCHANGED vars
    <3>1. UNCHANGED <<registered, deleteObject, freed, isExecuted, pc>>
      BY <2>5 DEF Environment, Elapse, Arrive, EnvKeeps, vars, sharedVars, roundVars
    <3> QED  BY <3>1, StagesKept DEF abstract, chosen, exists
  <2> QED
    BY <2>1, <2>2, <2>3, <2>4, <2>5 DEF Next, EnterLoop, LoopStep, Outside, Rounds
<1> QED
  BY <1>1, <1>2, <1>3, MainLoopType, MainLoopInvariant, MainLoopDispatch, PTL
  DEF Spec, ImplementsContract, Contract!Spec, Contract!contract, abstract
=============================================================================
