------------------------------- MODULE MainLoop -------------------------------
(***************************************************************************)
(* The main loop of the verification tests (VerificationMainLoop.hpp): one *)
(* thread prepares, polls, checks and dispatches the dispatch sources, the *)
(* watches and the timeouts that other threads, and its own callbacks,     *)
(* register and unregister through the MainLoopContext.                    *)
(*                                                                         *)
(* One step is one critical section, or one access to an atomic that       *)
(* another thread can observe.  An object stands for the DispatchSource,   *)
(* Watch or Timeout and for the struct that wraps it: the code allocates   *)
(* and deletes the two together.  A watch has a file descriptor of its own.*)
(***************************************************************************)
EXTENDS Naturals, FiniteSets

CONSTANTS
  Sources, Watches, Timeouts, \* the objects that may be registered, once each
  TimedSources,    \* the sources whose prepare() names a poll timeout when idle
  Prio,            \* the DispatchPriority of every object
  Clients,         \* the threads other than the one that runs the loop
  Loop,            \* the thread that runs the loop
  WakeFd,          \* the eventfd, managedFileDescriptors_[0]
  None,            \* no object
  Modes,           \* the entry points used, see EntryPoints
  MaxEntries,      \* bound: how often the loop is entered
  MaxRounds,       \* bound: iterations of one runVerification()
  MaxData          \* bound: events that arrive for one source or watch

Objects == Sources \cup Watches \cup Timeouts
Threads == Clients \cup {Loop}

(* run() with its default argument, TIMEOUT_INFINITE, or with another one,   *)
(* doSingleIteration() with its default argument, and runVerification() with *)
(* its two flags: dispatch timeouts and watches, and sources.                *)
RunModes == {"run", "runFinite"}
LoopModes == RunModes \cup {"single"}
VerifyModes == {"both", "watches", "sources", "nothing"}
EntryPoints == LoopModes \cup VerifyModes

ASSUME MainLoopAssumption ==
  /\ IsFiniteSet(Objects)
  /\ Sources \cap Watches = {} /\ Sources \cap Timeouts = {}
  /\ Watches \cap Timeouts = {} /\ WakeFd \notin Objects /\ None \notin Objects
  /\ TimedSources \subseteq Sources /\ Prio \in [Objects -> Nat]
  /\ Loop \notin Clients /\ Modes \subseteq EntryPoints
  /\ MaxEntries \in Nat /\ MaxRounds \in Nat /\ MaxData \in Nat

VARIABLES
  \* what the registration calls and the loop share
  registered,    \* objects in registeredDispatchSources_, ..Watches_, ..Timeouts_
  regAt,         \* position of an object in the order of registration
  managed,       \* watches whose descriptor is in managedFileDescriptors_
  deleteObject,  \* objects whose struct has deleteObject_ set
  isExecuted,    \* objects whose struct has isExecuted_ set
  elapsed,       \* timeouts whose struct has timeoutElapsed_ set
  freed,         \* objects that have been deleted
  call,          \* the next step of the registration call a thread is in
  hasToStop, running, isBroken,
  wake,          \* the eventfd counter is not zero
  \* what only the loop's thread uses
  pc,            \* where the loop's thread is
  mode,          \* the entry point it came from
  rounds,        \* iterations left in runVerification()
  entries,       \* how often the loop was entered
  toDispatch,    \* sourcesToDispatch_, watchesToDispatch_, timeoutsToDispatch_
  visited,       \* what the running dispatch round has visited
  polled,        \* the descriptors of the local copy in poll(), then the ready ones
  revents,       \* descriptors whose managed entry has revents set
  interval,      \* currentMinimalTimeoutInterval_: "none" (0), "finite", "infinite"
  \* the environment
  due,           \* timeouts whose ready time has passed
  pending,       \* events a source or watch has to dispatch
  supply,        \* events that may still arrive for it
  \* history
  fired,         \* dispatch() calls of a timeout, up to 2
  late           \* dispatch() calls begun after the unregistration, up to 2

sharedVars == <<registered, regAt, managed, deleteObject, elapsed, freed>>
flagVars   == <<hasToStop, running, isBroken, wake>>
pollVars   == <<polled, revents, interval>>
entryVars  == <<mode, rounds, entries>>
roundVars  == <<isExecuted, toDispatch, visited>>
envVars    == <<due, pending, supply>>
history    == <<fired, late>>
vars == <<sharedVars, flagVars, pollVars, entryVars, roundVars, envVars,
          history, call, pc>>

IdleCall == [step |-> "idle", obj |-> None]
InCall(step, o) == [step |-> step, obj |-> o]

Calls == [step : {"idle", "stopWake"}, obj : {None}] \cup [step : {"break"}, obj : Sources]
           \cup [step : {"insertWatch", "dropFd", "flagWatch"}, obj : Watches]
Locations ==
  {"off", "reset", "while", "reapSourcesAndWatches", "reapTimeouts",
   "prepareSources", "prepareTimeouts", "sizeSources", "sizeTimeouts", "divide",
   "pollCopy", "pollWait", "pollUpdate", "pollTimeouts", "pollAck",
   "checkWatches", "checkSources", "timeouts", "watches", "beginSources", "sources",
   "recheck", "invoke", "callback", "verifyWake", "crashed", "destroyed"}

(* What each variable may hold. *)
FlagsOK ==
  /\ hasToStop \in BOOLEAN /\ running \in BOOLEAN
  /\ isBroken \in BOOLEAN /\ wake \in BOOLEAN

DataOK ==
  /\ registered \subseteq Objects /\ managed \subseteq Watches
  /\ deleteObject \subseteq Objects /\ isExecuted \subseteq Objects
  /\ elapsed \subseteq Timeouts /\ freed \subseteq Objects
  /\ regAt \in [Objects -> Nat]
  /\ call \in [Threads -> Calls]
  /\ pc \in Locations /\ mode \in EntryPoints
  /\ rounds \in Nat /\ entries \in Nat
  /\ toDispatch \subseteq Objects /\ visited \subseteq Objects
  /\ polled \subseteq Watches \cup {WakeFd} /\ revents \subseteq Watches \cup {WakeFd}
  /\ interval \in {"none", "finite", "infinite"}
  /\ due \subseteq Timeouts
  /\ pending \in [Sources \cup Watches -> Nat] /\ supply \in [Sources \cup Watches -> Nat]
  /\ fired \in [Timeouts -> 0 .. 2] /\ late \in [Objects -> 0 .. 2]

TypeOK == FlagsOK /\ DataOK

Init ==
  /\ registered = {} /\ managed = {} /\ deleteObject = {} /\ isExecuted = {}
  /\ elapsed = {} /\ freed = {} /\ regAt = [o \in Objects |-> 0]
  /\ call = [t \in Threads |-> IdleCall]
  /\ hasToStop = FALSE /\ running = FALSE /\ isBroken = FALSE /\ wake = FALSE
  /\ pc = "off" /\ mode = "run" /\ rounds = 0 /\ entries = 0
  /\ toDispatch = {} /\ visited = {}
  /\ polled = {} /\ revents = {} /\ interval = "infinite"
  /\ due = {} /\ pending = [o \in Sources \cup Watches |-> 0]
  /\ supply = [o \in Sources \cup Watches |-> MaxData]
  /\ fired = [t \in Timeouts |-> 0] /\ late = [o \in Objects |-> 0]

-----------------------------------------------------------------------------
(* Registration: called by any thread, or by a callback of the loop.        *)

(* A client thread, or the loop's thread inside a callback, may begin a call.*)
CanCall(t) ==
  /\ call[t] = IdleCall
  /\ t = Loop => pc = "callback"
  /\ pc # "destroyed"

Fresh(o) == o \notin registered \cup freed /\ \A t \in Threads : call[t].obj # o

(* Every object is unregistered once, by whoever still holds it. *)
Held(o) ==
  /\ o \in registered \ deleteObject
  /\ \A t \in Threads : call[t].obj # o

Insert(o) ==
  /\ registered' = registered \cup {o}
  /\ regAt' = [regAt EXCEPT ![o] = Cardinality(registered \cup freed)]
  /\ UNCHANGED <<deleteObject, elapsed, freed>>

RegisterSource(t, s) ==
  /\ CanCall(t) /\ Fresh(s)
  /\ Insert(s)
  /\ UNCHANGED <<managed, call, flagVars, pollVars, entryVars, roundVars, envVars, history, pc>>

RegisterTimeout(t, o) ==
  /\ CanCall(t) /\ Fresh(o)
  /\ Insert(o)
  /\ UNCHANGED <<managed, call, flagVars, pollVars, entryVars, roundVars, envVars, history, pc>>

(* The descriptor is managed before the watch is registered. *)
RegisterWatch(t, w) ==
  /\ CanCall(t) /\ Fresh(w)
  /\ managed' = managed \cup {w}
  /\ call' = [call EXCEPT ![t] = InCall("insertWatch", w)]
  /\ UNCHANGED <<registered, regAt, deleteObject, elapsed, freed, flagVars, pollVars,
                 entryVars, roundVars, envVars, history, pc>>

InsertWatch(t) ==
  /\ call[t].step = "insertWatch"
  /\ Insert(call[t].obj)
  /\ call' = [call EXCEPT ![t] = IdleCall]
  /\ UNCHANGED <<managed, flagVars, pollVars, entryVars, roundVars, envVars, history, pc>>

(* The loop reads both flags without the lock: two steps. *)
UnregisterSource(t, s) ==
  /\ CanCall(t) /\ Held(s)
  /\ deleteObject' = deleteObject \cup {s}
  /\ call' = [call EXCEPT ![t] = InCall("break", s)]
  /\ UNCHANGED <<registered, regAt, managed, elapsed, freed, flagVars, pollVars,
                 entryVars, roundVars, envVars, history, pc>>

BreakRound(t) ==
  /\ call[t].step = "break"
  /\ isBroken' = TRUE
  /\ call' = [call EXCEPT ![t] = IdleCall]
  /\ UNCHANGED <<sharedVars, hasToStop, running, wake, pollVars, entryVars,
                 roundVars, envVars, history, pc>>

UnregisterTimeout(t, o) ==
  /\ CanCall(t) /\ Held(o)
  /\ deleteObject' = deleteObject \cup {o}
  /\ UNCHANGED <<registered, regAt, managed, elapsed, freed, call, flagVars, pollVars,
                 entryVars, roundVars, envVars, history, pc>>

(* Mutant: the watch is flagged before its descriptor is dropped. *)
UnregisterWatchFlagFirst(t, w) ==
  /\ CanCall(t) /\ Held(w)
  /\ wake' = TRUE /\ deleteObject' = deleteObject \cup {w}
  /\ call' = [call EXCEPT ![t] = InCall("dropFd", w)]
  /\ UNCHANGED <<registered, regAt, managed, elapsed, freed, hasToStop, running, isBroken,
                 pollVars, entryVars, roundVars, envVars, history, pc>>

(* wakeup(), then the descriptor is dropped, then the watch is flagged. *)
UnregisterWatch(t, w) ==
  /\ CanCall(t) /\ Held(w)
  /\ wake' = TRUE
  /\ call' = [call EXCEPT ![t] = InCall("dropFd", w)]
  /\ UNCHANGED <<sharedVars, hasToStop, running, isBroken, pollVars, entryVars,
                 roundVars, envVars, history, pc>>

DropFd(t) ==
  /\ call[t].step = "dropFd"
  /\ managed' = managed \ {call[t].obj}
  /\ revents' = revents \ {call[t].obj}
  /\ call' = [call EXCEPT ![t] = InCall("flagWatch", call[t].obj)]
  /\ UNCHANGED <<registered, regAt, deleteObject, elapsed, freed, flagVars, polled, interval,
                 entryVars, roundVars, envVars, history, pc>>

FlagWatch(t) ==
  /\ call[t].step = "flagWatch"
  /\ deleteObject' = deleteObject \cup {call[t].obj}
  /\ call' = [call EXCEPT ![t] = IdleCall]
  /\ UNCHANGED <<registered, regAt, managed, elapsed, freed, flagVars, pollVars,
                 entryVars, roundVars, envVars, history, pc>>

(* A stop() while hasToStop_ is set already is no more than a wakeup(). *)
Stop(t) ==
  /\ CanCall(t) /\ ~hasToStop
  /\ hasToStop' = TRUE
  /\ call' = [call EXCEPT ![t] = InCall("stopWake", None)]
  /\ UNCHANGED <<sharedVars, running, isBroken, wake, pollVars, entryVars,
                 roundVars, envVars, history, pc>>

(* Mutant: stop() does not wake the loop. *)
StopWithoutWakeup(t) ==
  /\ call[t].step = "stopWake"
  /\ call' = [call EXCEPT ![t] = IdleCall]
  /\ UNCHANGED <<sharedVars, flagVars, pollVars, entryVars, roundVars, envVars, history, pc>>

StopWake(t) ==
  /\ call[t].step = "stopWake"
  /\ wake' = TRUE
  /\ call' = [call EXCEPT ![t] = IdleCall]
  /\ UNCHANGED <<sharedVars, hasToStop, running, isBroken, pollVars, entryVars,
                 roundVars, envVars, history, pc>>

Wakeup(t) ==
  /\ CanCall(t)
  /\ wake' = TRUE
  /\ UNCHANGED <<sharedVars, hasToStop, running, isBroken, call, pollVars, entryVars,
                 roundVars, envVars, history, pc>>

-----------------------------------------------------------------------------
(* Entering and leaving the loop.                                           *)

Goto(l) == pc' = l
LoopKeeps == UNCHANGED <<registered, regAt, managed, deleteObject, freed, isExecuted,
                         toDispatch, visited, elapsed, pollVars, call, envVars, history>>

(* run() and runVerification() set running_ before they clear hasToStop_. *)
Enter(m) ==
  /\ pc = "off" /\ entries < MaxEntries
  /\ m \in Modes \ {"single"}
  /\ running' = TRUE /\ mode' = m /\ entries' = entries + 1
  /\ Goto("reset")
  /\ UNCHANGED <<hasToStop, isBroken, wake, rounds>> /\ LoopKeeps

Reset ==
  /\ pc = "reset"
  /\ hasToStop' = FALSE
  /\ Goto(IF mode \in RunModes THEN "while" ELSE "sizeSources")
  /\ UNCHANGED <<running, isBroken, wake, entryVars>> /\ LoopKeeps

(* One doSingleIteration() or doVerificationIteration() called by itself. *)
IterateOnce(m) ==
  /\ pc = "off" /\ entries < MaxEntries
  /\ m \in Modes \ RunModes
  /\ mode' = m /\ entries' = entries + 1
  /\ Goto(IF m = "single" THEN "reapSourcesAndWatches" ELSE "prepareSources")
  /\ UNCHANGED <<flagVars, rounds>> /\ LoopKeeps

(* Where an iteration ends: running_ is set inside run() and runVerification() *)
(* only.                                                                       *)
IterationEnd == IF running THEN "while" ELSE "off"

Continue ==
  /\ pc = "while" /\ ~hasToStop /\ (mode \in RunModes \/ rounds > 0)
  /\ rounds' = IF mode \in RunModes THEN rounds ELSE rounds - 1
  /\ Goto(IF mode \in RunModes THEN "reapSourcesAndWatches" ELSE "prepareSources")
  /\ UNCHANGED <<flagVars, mode, entries>> /\ LoopKeeps

Leave ==
  /\ pc = "while" /\ (hasToStop \/ (mode \notin RunModes /\ rounds = 0))
  /\ running' = FALSE
  /\ Goto(IF mode \in RunModes THEN "off" ELSE "verifyWake")
  /\ UNCHANGED <<hasToStop, isBroken, wake, entryVars>> /\ LoopKeeps

VerifyWake ==
  /\ pc = "verifyWake"
  /\ wake' = TRUE
  /\ Goto("off")
  /\ UNCHANGED <<hasToStop, running, isBroken, entryVars>> /\ LoopKeeps

(* runVerification() divides by the interval its first prepare() computed. *)
Divide ==
  /\ pc = "divide"
  /\ IF interval = "none"
       THEN Goto("crashed") /\ UNCHANGED rounds
       ELSE Goto("while") /\ \E n \in 0 .. MaxRounds : rounds' = n
  /\ UNCHANGED <<flagVars, mode, entries>> /\ LoopKeeps

(* The destructor, once nothing uses the loop any more, with its cleanup(). *)
Destroy ==
  /\ pc = "off"
  /\ \A t \in Threads : call[t] = IdleCall
  /\ freed' = freed \cup registered /\ registered' = {}
  /\ managed' = {} /\ toDispatch' = {} /\ visited' = {} /\ wake' = TRUE
  /\ Goto("destroyed")
  /\ UNCHANGED <<regAt, deleteObject, elapsed, isExecuted, hasToStop, running,
                 isBroken, pollVars, entryVars, call, envVars, history>>

-----------------------------------------------------------------------------
(* doSingleIteration(): delete what was unregistered.                        *)

(* Mutant: the sets of what is still to be dispatched are not consulted. *)
ReapableUnconsulted(K) == {o \in registered \cap K : o \in deleteObject /\ o \notin isExecuted}

Reapable(K) == {o \in registered \cap K :
                  o \in deleteObject /\ o \notin isExecuted /\ o \notin toDispatch}

(* The multimap's order: by priority, then by registration. *)
Precedes(a, b) == Prio[a] < Prio[b] \/ (Prio[a] = Prio[b] /\ regAt[a] < regAt[b])

(* The unbroken run of reapable entries that ends with o. *)
RunUpTo(o, K) ==
  {p \in registered \cap K :
     /\ p = o \/ Precedes(p, o)
     /\ \A q \in registered \cap K :
          (q = p \/ Precedes(p, q)) /\ (q = o \/ Precedes(q, o)) => q \in Reapable(K)}

(* erase() returns the next entry and the loop's ++ skips it: of a run of    *)
(* reapable entries every second one stays for a later iteration.            *)
Reaped(K) == {o \in Reapable(K) : Cardinality(RunUpTo(o, K)) % 2 = 1}

Reap(gone) ==
  /\ freed' = freed \cup gone /\ registered' = registered \ gone
  /\ UNCHANGED <<regAt, managed, deleteObject, elapsed, flagVars, pollVars, entryVars,
                 roundVars, envVars, history, call>>

ReapSourcesAndWatches ==
  /\ pc = "reapSourcesAndWatches"
  /\ Reap(Reaped(Sources) \cup Reaped(Watches))
  /\ Goto("reapTimeouts")

ReapTimeouts ==
  /\ pc = "reapTimeouts"
  /\ Reap(Reaped(Timeouts))
  /\ Goto("prepareSources")

-----------------------------------------------------------------------------
(* prepare(), poll(), check()                                               *)

Live(K) == (registered \cap K) \ deleteObject
ReadySources == {s \in Live(Sources) : pending[s] > 0}
(* Mutant: timeoutElapsed_ is not consulted. *)
NewlyElapsedAgain == {t \in Live(Timeouts) : t \in due}

NewlyElapsed == {t \in Live(Timeouts) : t \notin elapsed /\ t \in due}

ScanKeeps == UNCHANGED <<registered, regAt, managed, deleteObject, freed, flagVars,
                         entryVars, isExecuted, visited, call, envVars, history>>

(* The dispatch rounds in the order the entry point runs them. *)
FirstRound ==
  CASE mode \in LoopModes          -> "timeouts"
    [] mode \in {"both", "watches"} -> "watches"
    [] mode = "sources"             -> "beginSources"
    [] OTHER                        -> IterationEnd

NextRound(r) ==
  IF mode \in LoopModes
    THEN CASE r = "timeouts" -> "watches" [] r = "watches" -> "beginSources" [] OTHER -> IterationEnd
    ELSE CASE r = "watches" -> "timeouts"
           [] r = "timeouts" /\ mode = "both" -> "beginSources"
           [] OTHER -> IterationEnd

PrepareSources ==
  /\ pc \in {"prepareSources", "sizeSources"}
  /\ toDispatch' = toDispatch \cup ReadySources
  /\ interval' = IF mode \in {"run", "single"}
                      /\ (Live(Sources) \ ReadySources) \cap TimedSources = {}
                   THEN "infinite" ELSE "finite"
  /\ Goto(IF pc = "prepareSources" THEN "prepareTimeouts" ELSE "sizeTimeouts")
  /\ UNCHANGED <<elapsed, polled, revents>> /\ ScanKeeps

(* doSingleIteration() polls only when prepare() found nothing. *)
PrepareTimeouts ==
  /\ pc \in {"prepareTimeouts", "sizeTimeouts"}
  /\ elapsed' = elapsed \cup NewlyElapsed
  /\ toDispatch' = toDispatch \cup NewlyElapsed
  /\ interval' = CASE NewlyElapsed # {}                         -> "none"
                   [] NewlyElapsed = {} /\ Live(Timeouts) \subseteq elapsed -> interval
                   [] OTHER                                     -> "finite"
  /\ Goto(IF pc = "sizeTimeouts" THEN "divide"
          ELSE IF mode \in LoopModes /\ toDispatch' \cap (Sources \cup Timeouts) # {}
                 THEN FirstRound ELSE "pollCopy")
  /\ UNCHANGED <<polled, revents>> /\ ScanKeeps

(* Mutant: the wakeup is acknowledged before ::poll(). *)
PollCopyAcknowledging ==
  /\ pc = "pollCopy"
  /\ polled' = managed \cup {WakeFd} /\ revents' = {}
  /\ wake' = FALSE
  /\ Goto("pollWait")
  /\ UNCHANGED <<hasToStop, running, isBroken, interval, sharedVars, entryVars, roundVars,
                 call, envVars, history>>

PollCopy ==
  /\ pc = "pollCopy"
  /\ polled' = managed \cup {WakeFd} /\ revents' = {}
  /\ Goto("pollWait")
  /\ UNCHANGED <<interval, elapsed, toDispatch>> /\ ScanKeeps

ReadyFds == {f \in polled : IF f = WakeFd THEN wake ELSE pending[f] > 0}

(* ::poll() returns when a descriptor is ready or the interval is over. *)
PollWait ==
  /\ pc = "pollWait"
  /\ ReadyFds # {} \/ interval # "infinite"
  /\ polled' = ReadyFds
  /\ Goto("pollUpdate")
  /\ UNCHANGED <<revents, interval, elapsed, toDispatch>> /\ ScanKeeps

PollUpdate ==
  /\ pc = "pollUpdate"
  /\ revents' = polled \cap (managed \cup {WakeFd})
  /\ polled' = {}
  /\ Goto(IF polled = {} THEN "pollTimeouts" ELSE "pollAck")
  /\ UNCHANGED <<interval, elapsed, toDispatch>> /\ ScanKeeps

(* Mutant: the flag is set, the set of timeouts is not extended. *)
PollTimeoutsForgotten ==
  /\ pc = "pollTimeouts"
  /\ elapsed' = elapsed \cup NewlyElapsed
  /\ Goto("pollAck")
  /\ UNCHANGED <<pollVars, toDispatch>> /\ ScanKeeps

PollTimeouts ==
  /\ pc = "pollTimeouts"
  /\ elapsed' = elapsed \cup NewlyElapsed
  /\ toDispatch' = toDispatch \cup NewlyElapsed
  /\ Goto("pollAck")
  /\ UNCHANGED pollVars /\ ScanKeeps

(* wakeupAck() reads until the counter is zero. *)
PollAck ==
  /\ pc = "pollAck"
  /\ wake' = IF WakeFd \in revents THEN FALSE ELSE wake
  /\ Goto(IF mode = "nothing" THEN IterationEnd ELSE "checkWatches")
  /\ UNCHANGED <<hasToStop, running, isBroken, entryVars>> /\ LoopKeeps

(* Mutant: revents is not tested. *)
CheckWatchesUntested ==
  /\ pc = "checkWatches"
  /\ toDispatch' = toDispatch \cup (Live(Watches) \cap managed)
  /\ Goto("checkSources")
  /\ UNCHANGED <<elapsed, pollVars>> /\ ScanKeeps

CheckWatches ==
  /\ pc = "checkWatches"
  /\ toDispatch' = toDispatch \cup (Live(Watches) \cap managed \cap revents)
  /\ Goto("checkSources")
  /\ UNCHANGED <<elapsed, pollVars>> /\ ScanKeeps

CheckSources ==
  /\ pc = "checkSources"
  /\ toDispatch' = toDispatch \cup ReadySources
  /\ Goto(IF toDispatch' # {} THEN FirstRound ELSE IterationEnd)
  /\ UNCHANGED <<elapsed, pollVars>> /\ ScanKeeps

-----------------------------------------------------------------------------
(* dispatchTimeouts(), dispatchWatches(), dispatchSources(): no lock is held. *)

KindOf(r) == CASE r = "timeouts" -> Timeouts [] r = "watches" -> Watches [] OTHER -> Sources
RoundOf(o) == IF o \in Timeouts THEN "timeouts" ELSE IF o \in Watches THEN "watches" ELSE "sources"

DispatchKeeps == UNCHANGED <<sharedVars, hasToStop, running, wake, pollVars, entryVars, call>>

(* Mutant: isBroken_ is not reset. *)
BeginSourcesBroken ==
  /\ pc = "beginSources"
  /\ Goto("sources")
  /\ UNCHANGED <<roundVars, isBroken, envVars, history>> /\ DispatchKeeps

BeginSources ==
  /\ pc = "beginSources"
  /\ isBroken' = IF toDispatch \cap Sources # {} THEN FALSE ELSE isBroken
  /\ Goto("sources")
  /\ UNCHANGED <<roundVars, envVars, history>> /\ DispatchKeeps

RoundOver(r) ==
  \/ toDispatch \cap KindOf(r) \subseteq visited
  \/ r = "sources" /\ isBroken

(* An object whose struct is flagged is passed over. *)
Visit(r) ==
  /\ pc = r /\ ~RoundOver(r)
  /\ \E o \in (toDispatch \cap KindOf(r)) \ visited :
       /\ \A p \in (toDispatch \cap KindOf(r)) \ visited : Prio[o] <= Prio[p]
       /\ visited' = visited \cup {o}
       /\ IF o \in deleteObject
            THEN UNCHANGED isExecuted /\ Goto(r)
            ELSE /\ isExecuted' = isExecuted \cup {o}
                 /\ Goto(IF r = "sources" THEN "recheck" ELSE "invoke")
  /\ UNCHANGED <<toDispatch, isBroken, envVars, history>> /\ DispatchKeeps

(* Mutant: the set is not cleared. *)
EndRoundKeeping(r) ==
  /\ pc = r /\ RoundOver(r)
  /\ visited' = {}
  /\ Goto(NextRound(r))
  /\ UNCHANGED <<isExecuted, toDispatch, isBroken, envVars, history>> /\ DispatchKeeps

(* The set is cleared even when isBroken_ has cut the round short. *)
EndRound(r) ==
  /\ pc = r /\ RoundOver(r)
  /\ toDispatch' = toDispatch \ KindOf(r)
  /\ visited' = {}
  /\ Goto(NextRound(r))
  /\ UNCHANGED <<isExecuted, isBroken, envVars, history>> /\ DispatchKeeps

(* Mutant: the flag is not read between two calls. *)
RecheckBlindly ==
  /\ pc = "recheck"
  /\ Goto("invoke")
  /\ UNCHANGED <<roundVars, isBroken, envVars, history>> /\ DispatchKeeps

(* while (!deleteObject_ && dispatch()): the flag is read before every call. *)
Recheck ==
  /\ pc = "recheck"
  /\ \E s \in isExecuted :
       IF s \in deleteObject
         THEN isExecuted' = isExecuted \ {s} /\ Goto("sources")
         ELSE UNCHANGED isExecuted /\ Goto("invoke")
  /\ UNCHANGED <<toDispatch, visited, isBroken, envVars, history>> /\ DispatchKeeps

Once(n) == IF n < 2 THEN n + 1 ELSE n

(* dispatch() is called: a source or watch takes one event. *)
Invoke ==
  /\ pc = "invoke"
  /\ \E o \in isExecuted :
       /\ pending' = IF o \in Timeouts \/ pending[o] = 0
                       THEN pending ELSE [pending EXCEPT ![o] = @ - 1]
       /\ fired' = IF o \in Timeouts THEN [fired EXCEPT ![o] = Once(@)] ELSE fired
       /\ late' = IF o \in deleteObject THEN [late EXCEPT ![o] = Once(@)] ELSE late
  /\ Goto("callback")
  /\ UNCHANGED <<roundVars, isBroken, due, supply>> /\ DispatchKeeps

(* dispatch() returns; a source is asked again while it has data. *)
Return ==
  /\ pc = "callback" /\ call[Loop] = IdleCall
  /\ \E o \in isExecuted :
       IF o \in Sources /\ pending[o] > 0
         THEN UNCHANGED isExecuted /\ Goto("recheck")
         ELSE isExecuted' = isExecuted \ {o} /\ Goto(RoundOf(o))
  /\ UNCHANGED <<toDispatch, visited, isBroken, envVars, history>> /\ DispatchKeeps

-----------------------------------------------------------------------------
(* The environment: time passes, data arrives.  Neither is told apart from   *)
(* its happening just after the registration when it happens before.         *)

EnvKeeps == UNCHANGED <<sharedVars, flagVars, pollVars, entryVars, roundVars,
                        history, call, pc>>

Elapse(t) ==
  /\ t \in registered \ due
  /\ due' = due \cup {t}
  /\ UNCHANGED <<pending, supply>> /\ EnvKeeps

Arrive(o) ==
  /\ supply[o] > 0 /\ o \in registered
  /\ supply' = [supply EXCEPT ![o] = @ - 1]
  /\ pending' = [pending EXCEPT ![o] = @ + 1]
  /\ UNCHANGED due /\ EnvKeeps

-----------------------------------------------------------------------------
BeginCall(t) ==
  \/ \E s \in Sources : RegisterSource(t, s) \/ UnregisterSource(t, s)
  \/ \E w \in Watches : RegisterWatch(t, w) \/ UnregisterWatch(t, w)
  \/ \E o \in Timeouts : RegisterTimeout(t, o) \/ UnregisterTimeout(t, o)
  \/ Stop(t) \/ Wakeup(t)

FinishCall(t) ==
  InsertWatch(t) \/ BreakRound(t) \/ DropFd(t) \/ FlagWatch(t) \/ StopWake(t)

EnterLoop == (\E m \in Modes : Enter(m) \/ IterateOnce(m)) \/ Destroy

LoopStep ==
  \/ Reset \/ Continue \/ Leave \/ VerifyWake \/ Divide
  \/ ReapSourcesAndWatches \/ ReapTimeouts \/ PrepareSources \/ PrepareTimeouts
  \/ PollCopy \/ PollWait \/ PollUpdate \/ PollTimeouts \/ PollAck
  \/ CheckWatches \/ CheckSources \/ BeginSources
  \/ \E r \in {"timeouts", "watches", "sources"} : Visit(r) \/ EndRound(r)
  \/ Recheck \/ Invoke \/ Return

Environment == (\E t \in Timeouts : Elapse(t)) \/ (\E o \in Sources \cup Watches : Arrive(o))

Next ==
  \/ \E t \in Threads : BeginCall(t) \/ FinishCall(t)
  \/ EnterLoop \/ LoopStep \/ Environment

Spec == Init /\ [][Next]_vars

(* The loop's thread and every thread inside a call keep running, callbacks  *)
(* return, and time passes.  Nobody is obliged to begin a call, to enter the *)
(* loop, or to send data.                                                    *)
Fairness ==
  /\ WF_vars(LoopStep)
  /\ \A t \in Threads : WF_vars(FinishCall(t))
  /\ \A t \in Timeouts : WF_vars(Elapse(t))

FairSpec == Spec /\ Fairness

-----------------------------------------------------------------------------
(* Safety.                                                                  *)

(* Memory: whatever the loop is about to dispatch, or is dispatching, and    *)
(* whatever an unregistration under way still has to look up, is not freed.  *)
NoUseAfterFree ==
  /\ toDispatch \cap freed = {} /\ isExecuted \cap freed = {}
  /\ \A t \in Threads : call[t].step \in {"insertWatch", "dropFd", "flagWatch"}
                         => call[t].obj \notin freed

(* unregisterWatch() drops the descriptor before it flags the watch, so that *)
(* managedFileDescriptors_ never holds one whose owner is done with it.      *)
FlaggedNotPolled == deleteObject \cap managed = {} /\ freed \cap managed = {}

(* What that means for ::poll(): no step puts a descriptor into poll()'s copy*)
(* whose watch is flagged or deleted by then.  A watch that is unregistered  *)
(* after the copy was made stays in it until that ::poll() is over.          *)
CopiedUnflagged == [][(polled' \ polled) \cap (deleteObject' \cup freed') = {}]_vars

(* A dispatch() that begins after the object was unregistered is the one the *)
(* loop had already decided on: never a second one.                          *)
LateDispatchBound == \A o \in Objects : late[o] <= 1

(* A timeout is dispatched at most once per registration.                    *)
FiresOnce == \A t \in Timeouts : fired[t] <= 1

(* A watch is dispatched only for an event poll() saw and nobody has taken.  *)
WatchHasEvent == \A w \in (toDispatch \cap Watches) \ visited : pending[w] > 0

(* Why the first three hold: what is to be dispatched is registered, what is *)
(* registered is not freed, and a call knows where its object is.            *)
Executing == {"recheck", "invoke", "callback"}

MemoryInv ==
  /\ toDispatch \subseteq registered /\ registered \cap freed = {}
  /\ deleteObject \subseteq registered \cup freed
  /\ isExecuted \subseteq toDispatch
  /\ pc \notin Executing => isExecuted = {}
  /\ \A a, b \in isExecuted : a = b

CallInv ==
  \A t \in Threads :
    /\ call[t].step = "insertWatch" => call[t].obj \notin registered \cup freed
    /\ call[t].step \in {"dropFd", "flagWatch"} => call[t].obj \in registered \ deleteObject
    /\ call[t].step = "flagWatch" => call[t].obj \notin managed
    /\ \A u \in Threads : u # t /\ call[u].obj = call[t].obj => call[t].obj = None

LateInv ==
  \A o \in Objects :
    /\ late[o] > 0 => o \in deleteObject
    /\ pc = "invoke" /\ o \in isExecuted => late[o] = 0

(* A round visits objects of its own kind, and the one it executes is among  *)
(* those it has visited.                                                     *)
Rounds == {"timeouts", "watches", "sources"}

RoundInv ==
  /\ pc \in Rounds => visited \subseteq KindOf(pc)
  /\ \A o \in isExecuted : o \in visited /\ visited \subseteq KindOf(RoundOf(o))
  /\ pc = "recheck" => isExecuted \subseteq Sources
  /\ pc \notin Rounds \cup Executing => visited = {}

(* A timeout that has not elapsed, or that a round has yet to visit, has not *)
(* been dispatched.                                                          *)
TimeoutInv ==
  \A t \in Timeouts :
    /\ t \notin elapsed => fired[t] = 0 /\ t \notin toDispatch
    /\ t \in toDispatch \ visited => fired[t] = 0
    /\ pc = "invoke" /\ t \in isExecuted => fired[t] = 0

(* What poll() has found for a watch is there until the watch is dispatched. *)
PolledInv ==
  /\ pc = "pollUpdate" => \A w \in polled \cap Watches : pending[w] > 0
  /\ pc \in {"pollTimeouts", "pollAck", "checkWatches"} =>
       \A w \in revents \cap Watches : pending[w] > 0

DispatchInv == RoundInv /\ TimeoutInv /\ PolledInv /\ FiresOnce /\ WatchHasEvent

(* The inductive invariant of the loop and the registration calls. *)
MainLoopInv == MemoryInv /\ CallInv /\ FlaggedNotPolled /\ LateInv /\ LateDispatchBound

-----------------------------------------------------------------------------
(* Refinement: both main loops keep one contract.  The object of isExecuted_ *)
(* is held; its dispatch() is decided on from the last test of deleteObject_ *)
(* to the return.  What is deleted stays flagged.                            *)
Stage(o) ==
  CASE o \in freed                             -> "deleted"
    [] o \in registered /\ o \in deleteObject -> "unregistered"
    [] o \in registered \ deleteObject         -> "registered"
    [] OTHER                                  -> "new"

stages == [o \in Objects |-> Stage(o)]
chosen == IF pc \in {"invoke", "callback"} THEN isExecuted ELSE {}
exists == pc # "destroyed"

Contract == INSTANCE DispatchContract WITH
  life <- stages, held <- isExecuted, decided <- chosen, open <- exists

(* Whatever clients and callbacks call meanwhile, no object is dispatched    *)
(* that was not registered when the loop last looked, no two are at a time,  *)
(* and none is deleted under the loop or before its owner is done with it.   *)
ImplementsContract == Contract!Spec

(* Once the loop is destroyed no call is under way, and none can begin.      *)
ClosedInv == pc = "destroyed" => \A t \in Threads : call[t] = IdleCall

-----------------------------------------------------------------------------
(* Liveness, of run().                                                      *)

Runs == running /\ mode \in RunModes
RunsFinite == running /\ mode = "runFinite"

(* Once hasToStop_ has been cleared, a stop() ends run().                    *)
StopHonoured == (Runs /\ hasToStop /\ pc # "reset") ~> ~running


(* What was unregistered is deleted, although a sweep skips entries.         *)
UnregisteredFreed ==
  \A o \in Objects : (o \in deleteObject /\ RunsFinite) ~> (o \in freed \/ ~running)

(* A registered timeout whose time has come fires.                           *)
DueFires ==
  \A t \in Timeouts :
    (t \in Live(Timeouts) \cap due /\ RunsFinite)
      ~> (fired[t] = 1 \/ t \in deleteObject \/ ~running)

(* Data for a registered source or watch is dispatched, although a round     *)
(* that an unregistration breaks forgets the sources it had not visited.     *)
DataServed ==
  \A o \in Sources \cup Watches :
    (o \in registered /\ pending[o] > 0 /\ RunsFinite)
      ~> (pending[o] = 0 \/ o \in deleteObject \/ ~running)

(* With an infinite poll(): a wakeup() makes the loop look again, so what    *)
(* was registered before it is found, wherever the loop was at that moment.  *)
WakeupServes ==
  \A t \in Timeouts :
    (t \in Live(Timeouts) \cap due /\ wake /\ Runs)
      ~> (fired[t] = 1 \/ t \in deleteObject \/ ~running)
=============================================================================
