----------------------------- MODULE TwoThreadLoop -----------------------------
(***************************************************************************)
(* The main loop that leaves its dispatching to a second thread            *)
(* (VerificationMainLoopWithQueue.hpp), under the test that runs the two   *)
(* (THMainLoopTwoThreads.cpp).  The loop's thread prepares, polls and      *)
(* checks; it then gives externalIterationMutex_ back, queues a call of    *)
(* doExternalIteration() and takes the mutex again.  The queue's thread    *)
(* waits for such calls and runs them with queueLock_ held.                *)
(*                                                                         *)
(* One step is one critical section, or one access to a flag that another  *)
(* thread can observe.  An object stands for a DispatchSource, a Watch or  *)
(* a Timeout and for the struct that wraps it.                             *)
(***************************************************************************)
EXTENDS Naturals, FiniteSets

CONSTANTS
  Sources, Watches, Timeouts, \* the objects the library may register, once each
  Avail,      \* the source whose dispatch() reports the service as available
  None,       \* no object, and no owner of a mutex
  MaxObjects, \* bound: objects registered in one behaviour
  MaxQueue,   \* bound: entries of queue_ that are told apart
  MaxData     \* bound: events that arrive for one source or watch

Objects == Sources \cup Watches \cup Timeouts

ASSUME TwoThreadLoopAssumption ==
  /\ Sources \cap Watches = {} /\ Sources \cap Timeouts = {}
  /\ Watches \cap Timeouts = {} /\ None \notin Objects \cup {"loop", "queue"}
  /\ Avail \in Sources /\ MaxObjects \in Nat
  /\ MaxQueue \in Nat \ {0} /\ MaxData \in Nat

VARIABLES
  life,        \* "new", "live" (registered), "flagged" (deleteObject_), "freed"
  toDispatch,  \* sourcesToDispatch_, watchesToDispatch_, timeoutsToDispatch_
  elapsed,     \* timeouts with timeoutElapsed_ set
  ext,         \* the owner of externalIterationMutex_: "loop", "queue" or None
  hasToStop, running, wake, isBroken,  \* of the loop; wake: the eventfd is readable
  polled,      \* the watches of poll()'s copy of the descriptors
  timed,       \* the timeouts that bound currentMinimalTimeoutInterval_
  ready,       \* watches whose managed descriptor has revents set
  queued,      \* the size of queue_, counted up to MaxQueue
  eqRunning,   \* running_ of the event queue
  turn,        \* the calls of queue_ that run() has still to make in this round
  left,        \* what the dispatch round has still to visit
  executing,   \* the object whose dispatch() is running
  lpc, qpc, tpc,        \* where the loop's, the queue's and the test's thread are
  isAvailable,          \* the local of the test
  due, pending, supply  \* the environment: timeouts, events to dispatch and to come

objVars   == <<life, toDispatch, elapsed>>
flagVars  == <<hasToStop, running, wake>>
pollVars  == <<polled, timed, ready>>
roundVars == <<left, executing, isBroken>>
queueVars == <<queued, eqRunning, turn>>
envVars   == <<due, pending, supply>>
vars == <<objVars, flagVars, pollVars, roundVars, queueVars, envVars, ext,
          lpc, qpc, tpc, isAvailable>>

LoopAt  == {"start", "reset", "while", "reap", "prepare", "copy", "poll", "check",
            "push", "relock", "done"}
Kinds   == {"timeouts", "watches", "sources"}
QueueAt == {"start", "enter", "wait", "notified", "next"} \cup Kinds \cup {"done"}
TestAt  == {"available", "unregister", "running", "stop", "spin", "queue", "stop2",
            "both", "joinLoop", "joinQueue", "delete", "done"}

TypeOK ==
  /\ life \in [Objects -> {"new", "live", "flagged", "freed"}]
  /\ toDispatch \subseteq Objects /\ elapsed \subseteq Timeouts
  /\ ext \in {"loop", "queue", None}
  /\ hasToStop \in BOOLEAN /\ running \in BOOLEAN /\ wake \in BOOLEAN
  /\ isBroken \in BOOLEAN /\ eqRunning \in BOOLEAN /\ isAvailable \in BOOLEAN
  /\ polled \subseteq Watches /\ timed \subseteq Timeouts /\ ready \subseteq Watches
  /\ queued \in 0 .. MaxQueue /\ turn \in 0 .. MaxQueue
  /\ left \subseteq Objects /\ executing \in Objects \cup {None}
  /\ lpc \in LoopAt /\ qpc \in QueueAt /\ tpc \in TestAt
  /\ due \subseteq Timeouts
  /\ pending \in [Sources \cup Watches -> Nat] /\ supply \in [Sources \cup Watches -> Nat]

(* SetUp(): the threads have been made and have yet to run.  hasToStop_ and   *)
(* isBroken_ have no initial value, and none is read before the first is set.  *)
Init ==
  /\ life = [o \in Objects |-> "new"] /\ toDispatch = {} /\ elapsed = {}
  /\ ext = None /\ hasToStop = FALSE /\ running = FALSE /\ wake = FALSE
  /\ isBroken = FALSE /\ polled = {} /\ timed = {} /\ ready = {}
  /\ queued = 0 /\ eqRunning = FALSE /\ turn = 0
  /\ left = {} /\ executing = None /\ isAvailable = FALSE
  /\ lpc = "start" /\ qpc = "start" /\ tpc = "available"
  /\ due = {} /\ pending = [o \in Sources \cup Watches |-> 0]
  /\ supply = [o \in Sources \cup Watches |-> MaxData]

Live(o) == life[o] = "live"
OfKind(kind) == CASE kind = "timeouts" -> Timeouts
                  [] kind = "watches" -> Watches
                  [] kind = "sources" -> Sources

(***************************************************************************)
(* The registration calls, made by the library on any thread while the     *)
(* loop exists.  Of them only the unregistration of a watch wakes the      *)
(* loop; data that arrives for a source comes with a wakeup() of the       *)
(* library's.                                                              *)
(***************************************************************************)
Register(o) ==
  /\ tpc # "done" /\ life[o] = "new"
  /\ Cardinality({p \in Objects : life[p] # "new"}) < MaxObjects
  /\ life' = [life EXCEPT ![o] = "live"]
  /\ UNCHANGED <<toDispatch, elapsed, flagVars, pollVars, roundVars, queueVars, envVars,
                 ext, lpc, qpc, tpc, isAvailable>>

Unregister(o) ==
  /\ tpc # "done" /\ Live(o)
  /\ life' = [life EXCEPT ![o] = "flagged"]
  /\ isBroken' = (isBroken \/ o \in Sources)
  /\ wake' = (wake \/ o \in Watches)
  /\ UNCHANGED <<toDispatch, elapsed, hasToStop, running, pollVars, left, executing,
                 queueVars, envVars, ext, lpc, qpc, tpc, isAvailable>>

Arrive(o) ==
  /\ Live(o) /\ supply[o] > 0
  /\ supply' = [supply EXCEPT ![o] = @ - 1] /\ pending' = [pending EXCEPT ![o] = @ + 1]
  /\ wake' = (wake \/ o \in Sources)
  /\ UNCHANGED <<objVars, hasToStop, running, pollVars, roundVars, queueVars, due, ext,
                 lpc, qpc, tpc, isAvailable>>

Elapse(t) ==
  /\ Live(t) /\ t \notin due /\ due' = due \cup {t}
  /\ UNCHANGED <<objVars, flagVars, pollVars, roundVars, queueVars, pending, supply, ext,
                 lpc, qpc, tpc, isAvailable>>

Library == \/ \E o \in Objects : Register(o) \/ Unregister(o)
           \/ \E o \in Sources \cup Watches : Arrive(o)
           \/ \E t \in Timeouts : Elapse(t)

--------------------------------------------------------------------------------
(***************************************************************************)
(* The loop's thread: run() and doSingleIteration().                       *)
(***************************************************************************)
unchangedByLoop == <<roundVars, envVars, qpc, tpc, isAvailable, eqRunning, turn>>

Run ==
  /\ lpc = "start" /\ lpc' = "reset" /\ running' = TRUE
  /\ UNCHANGED <<unchangedByLoop, objVars, hasToStop, wake, pollVars, ext, queued>>
Reset ==
  /\ lpc = "reset" /\ lpc' = "while" /\ hasToStop' = FALSE
  /\ UNCHANGED <<unchangedByLoop, objVars, running, wake, pollVars, ext, queued>>

Iterate ==
  /\ lpc = "while" /\ ~hasToStop /\ ext = None
  /\ ext' = "loop" /\ lpc' = "reap"
  /\ UNCHANGED <<unchangedByLoop, objVars, flagVars, pollVars, queued>>

Leave ==
  /\ lpc = "while" /\ hasToStop
  /\ running' = FALSE /\ lpc' = "done"
  /\ UNCHANGED <<unchangedByLoop, objVars, hasToStop, wake, pollVars, ext, queued>>

(* Mutant: the sets of what is to be dispatched are not consulted. *)
ReapableUnconsulted == {o \in Objects : life[o] = "flagged" /\ o # executing}

(* Flagged objects that no round holds may be deleted. *)
Reapable == {o \in Objects : life[o] = "flagged" /\ o # executing /\ o \notin toDispatch}

(* erase() returns the next element and the loop's ++ then skips it, so that  *)
(* of the objects of a kind at least the first is deleted, and perhaps not all.*)
Reap ==
  /\ lpc = "reap" /\ lpc' = "prepare"
  /\ \E gone \in SUBSET Reapable :
       /\ \A kind \in Kinds : (Reapable \cap OfKind(kind) # {}) => (gone \cap OfKind(kind) # {})
       /\ life' = [o \in Objects |-> IF o \in gone THEN "freed" ELSE life[o]]
  /\ UNCHANGED <<unchangedByLoop, toDispatch, elapsed, flagVars, pollVars, ext, queued>>

WithData == {s \in Sources : Live(s) /\ pending[s] > 0}
Unelapsed == {t \in Timeouts : Live(t) /\ t \notin elapsed}
OfPrepare(objects) == objects \ Watches

(* prepare(): the sources and timeouts that are ready now, or were left over, *)
(* are dispatched without a poll; dispatch() begins with the unlock.          *)
Prepare ==
  /\ lpc = "prepare"
  /\ elapsed' = elapsed \cup (Unelapsed \cap due)
  /\ toDispatch' = toDispatch \cup WithData \cup (Unelapsed \cap due)
  /\ IF OfPrepare(toDispatch') # {} THEN lpc' = "push" /\ ext' = None
                                    ELSE lpc' = "copy" /\ UNCHANGED ext
  /\ timed' = IF lpc' = "copy" THEN Unelapsed \ due ELSE {}
  /\ UNCHANGED <<unchangedByLoop, life, flagVars, polled, ready, queued>>

PollCopy ==
  /\ lpc = "copy" /\ lpc' = "poll"
  /\ polled' = {w \in Watches : Live(w)}
  /\ UNCHANGED <<unchangedByLoop, objVars, flagVars, timed, ready, ext, queued>>

ReadyFds == {w \in polled : pending[w] > 0}

(* ::poll() returns for a descriptor or for the time; only when no descriptor *)
(* is ready does poll() look at the timeouts.  A wakeup is acknowledged.      *)
Poll ==
  /\ lpc = "poll" /\ (wake \/ ReadyFds # {} \/ timed \cap due # {})
  /\ ready' = ReadyFds /\ wake' = FALSE /\ lpc' = "check"
  /\ polled' = {} /\ timed' = {}
  /\ LET expired == IF wake \/ ReadyFds # {} THEN {} ELSE Unelapsed \cap due
     IN  elapsed' = elapsed \cup expired /\ toDispatch' = toDispatch \cup expired
  /\ UNCHANGED <<unchangedByLoop, life, hasToStop, running, ext, queued>>

Check ==
  /\ lpc = "check" /\ ext' = None
  /\ toDispatch' = toDispatch \cup {w \in ready : Live(w)} \cup WithData
  /\ lpc' = IF toDispatch' # {} THEN "push" ELSE "while"
  /\ ready' = {}
  /\ UNCHANGED <<unchangedByLoop, life, elapsed, flagVars, polled, timed, queued>>

QueueIdle == qpc \in {"start", "enter", "wait", "notified", "done"}
Notified == IF qpc = "wait" THEN "notified" ELSE qpc

(* pushToQueue(): waits while the queue's thread works with queueLock_ held. *)
Push ==
  /\ lpc = "push" /\ QueueIdle
  /\ queued' = IF queued < MaxQueue THEN queued + 1 ELSE MaxQueue
  /\ qpc' = Notified /\ lpc' = "relock"
  /\ UNCHANGED <<roundVars, envVars, tpc, isAvailable, eqRunning, turn, objVars, flagVars,
                 pollVars, ext>>

(* dispatch() takes the mutex again and doSingleIteration() gives it back. *)
Relock ==
  /\ lpc = "relock" /\ ext = None /\ lpc' = "while"
  /\ UNCHANGED <<unchangedByLoop, objVars, flagVars, pollVars, ext, queued>>

LoopStep == \/ Run \/ Reset \/ Iterate \/ Leave \/ Reap \/ Prepare
            \/ PollCopy \/ Poll \/ Check \/ Push \/ Relock

--------------------------------------------------------------------------------
(***************************************************************************)
(* The queue's thread: VerificationMainLoopEventQueue::run() and           *)
(* doExternalIteration().  From the return of wait() until the next wait() *)
(* the thread holds queueLock_.                                            *)
(***************************************************************************)
unchangedByQueue == <<flagVars, pollVars, envVars, life, elapsed, lpc, tpc, queued>>

QueueRun ==
  /\ qpc = "start" /\ qpc' = "enter" /\ eqRunning' = TRUE
  /\ UNCHANGED <<unchangedByQueue, toDispatch, roundVars, turn, ext, isAvailable>>

(* The lock, the test of running_ and the wait(), which gives the lock back. *)
QueueEnter ==
  /\ qpc = "enter" /\ qpc' = IF eqRunning THEN "wait" ELSE "done"
  /\ UNCHANGED <<unchangedByQueue, toDispatch, roundVars, eqRunning, turn, ext, isAvailable>>

(* wait() has no predicate and may return without a notify. *)
SpuriousWakeup ==
  /\ qpc = "wait" /\ qpc' = "notified"
  /\ UNCHANGED <<unchangedByQueue, toDispatch, roundVars, eqRunning, turn, ext, isAvailable>>

(* Nothing is ever taken from queue_: the round makes every call queued so far. *)
BeginRound ==
  /\ qpc = "notified" /\ qpc' = "next" /\ turn' = queued
  /\ UNCHANGED <<unchangedByQueue, toDispatch, roundVars, eqRunning, ext, isAvailable>>

EndRound ==
  /\ qpc = "next" /\ turn = 0 /\ qpc' = IF eqRunning THEN "wait" ELSE "done"
  /\ UNCHANGED <<unchangedByQueue, toDispatch, roundVars, eqRunning, turn, ext, isAvailable>>

(* Mutant: the round does not take externalIterationMutex_. *)
BeginExternalUnlocked ==
  /\ qpc = "next" /\ turn > 0
  /\ qpc' = "timeouts" /\ turn' = turn - 1 /\ left' = toDispatch \cap Timeouts
  /\ UNCHANGED <<unchangedByQueue, toDispatch, executing, isBroken, eqRunning, ext, isAvailable>>

BeginExternal ==
  /\ qpc = "next" /\ turn > 0 /\ ext = None
  /\ ext' = "queue" /\ qpc' = "timeouts"
  /\ turn' = turn - 1 /\ left' = toDispatch \cap Timeouts
  /\ UNCHANGED <<unchangedByQueue, toDispatch, executing, isBroken, eqRunning, isAvailable>>

(* Mutant: deleteObject_ is not tested. *)
VisitFlagged(kind, o) ==
  /\ qpc = kind /\ executing = None /\ o \in left
  /\ kind = "sources" => ~isBroken
  /\ left' = left \ {o} /\ executing' = o
  /\ UNCHANGED <<unchangedByQueue, toDispatch, isBroken, eqRunning, turn, ext, qpc, isAvailable>>

(* The next object of the set, in any order; a flagged one is passed over. *)
Visit(kind, o) ==
  /\ qpc = kind /\ executing = None /\ o \in left
  /\ kind = "sources" => ~isBroken
  /\ left' = left \ {o} /\ executing' = IF Live(o) THEN o ELSE None
  /\ UNCHANGED <<unchangedByQueue, toDispatch, isBroken, eqRunning, turn, ext, qpc, isAvailable>>

(* dispatch() returns, with an event consumed; a live source with more events *)
(* is dispatched again at once.                                               *)
Return ==
  /\ executing # None
  /\ isAvailable' = (isAvailable \/ executing = Avail)
  /\ pending' = [o \in DOMAIN pending |->
                   IF o = executing /\ pending[o] > 0 THEN pending[o] - 1 ELSE pending[o]]
  /\ IF executing \in WithData /\ pending'[executing] > 0
     THEN UNCHANGED executing ELSE executing' = None
  /\ UNCHANGED <<flagVars, pollVars, due, supply, objVars, lpc, tpc, queued, left, isBroken,
                 eqRunning, turn, ext, qpc>>

RoundOver(kind) ==
  /\ qpc = kind /\ executing = None /\ (left = {} \/ (kind = "sources" /\ isBroken))

EndTimeouts ==
  /\ RoundOver("timeouts") /\ qpc' = "watches"
  /\ toDispatch' = toDispatch \ Timeouts /\ left' = toDispatch \cap Watches
  /\ UNCHANGED <<unchangedByQueue, executing, isBroken, eqRunning, turn, ext, isAvailable>>

(* Mutant: isBroken_ is not reset. *)
EndWatchesBroken ==
  /\ RoundOver("watches") /\ qpc' = "sources"
  /\ toDispatch' = toDispatch \ Watches /\ left' = toDispatch \cap Sources
  /\ UNCHANGED <<unchangedByQueue, executing, isBroken, eqRunning, turn, ext, isAvailable>>

EndWatches ==
  /\ RoundOver("watches") /\ qpc' = "sources"
  /\ toDispatch' = toDispatch \ Watches /\ left' = toDispatch \cap Sources
  /\ isBroken' = (isBroken /\ left' = {})
  /\ UNCHANGED <<unchangedByQueue, executing, eqRunning, turn, ext, isAvailable>>

EndExternal ==
  /\ RoundOver("sources") /\ qpc' = "next" /\ ext' = None
  /\ toDispatch' = toDispatch \ Sources /\ left' = {}
  /\ UNCHANGED <<unchangedByQueue, executing, isBroken, eqRunning, turn, isAvailable>>

QueueStep == \/ QueueRun \/ QueueEnter \/ BeginRound \/ EndRound \/ BeginExternal
             \/ (\E kind \in Kinds, o \in Objects : Visit(kind, o))
             \/ Return \/ EndTimeouts \/ EndWatches \/ EndExternal

--------------------------------------------------------------------------------
(***************************************************************************)
(* The test: its body waits for the availability, TearDown() follows.      *)
(***************************************************************************)
unchangedByTest == <<elapsed, toDispatch, running, pollVars, roundVars, queued, turn,
                     envVars, ext, lpc, isAvailable>>

Goto(from, to) == tpc = from /\ tpc' = to

(* The wait of 100 times 100 ms outlasts the delivery. *)
Available == /\ Goto("available", "unregister") /\ isAvailable
             /\ UNCHANGED <<unchangedByTest, life, hasToStop, wake, eqRunning, qpc>>
UnregisterService == /\ Goto("unregister", "running")
                     /\ UNCHANGED <<unchangedByTest, life, hasToStop, wake, eqRunning, qpc>>

(* VerificationMainLoop::stop(), which stops the queue as well and waits for it *)
StopLoop == /\ tpc = "running"
            /\ IF running THEN hasToStop' = TRUE /\ wake' = TRUE /\ tpc' = "stop"
                          ELSE tpc' = "queue" /\ UNCHANGED <<hasToStop, wake>>
            /\ UNCHANGED <<unchangedByTest, life, eqRunning, qpc>>
(* Mutant: stop() does not notify. *)
StopQueueSilently(from, to) == /\ Goto(from, to) /\ QueueIdle /\ eqRunning' = FALSE
                               /\ UNCHANGED <<unchangedByTest, life, hasToStop, wake, qpc>>
StopQueue(from, to) == /\ Goto(from, to) /\ QueueIdle
                       /\ eqRunning' = FALSE /\ qpc' = Notified
                       /\ UNCHANGED <<unchangedByTest, life, hasToStop, wake>>
Spin == /\ Goto("spin", "queue") /\ ~eqRunning
        /\ UNCHANGED <<unchangedByTest, life, hasToStop, wake, eqRunning, qpc>>

CheckQueue == /\ tpc = "queue" /\ tpc' = IF eqRunning THEN "stop2" ELSE "both"
              /\ UNCHANGED <<unchangedByTest, life, hasToStop, wake, eqRunning, qpc>>
WaitBoth == /\ Goto("both", "joinLoop") /\ ~running /\ ~eqRunning
            /\ UNCHANGED <<unchangedByTest, life, hasToStop, wake, eqRunning, qpc>>
JoinLoop == /\ Goto("joinLoop", "joinQueue") /\ lpc = "done"
            /\ UNCHANGED <<unchangedByTest, life, hasToStop, wake, eqRunning, qpc>>
JoinQueue == /\ Goto("joinQueue", "delete") /\ qpc = "done"
             /\ UNCHANGED <<unchangedByTest, life, hasToStop, wake, eqRunning, qpc>>
(* delete mainLoop_: the destructor unsubscribes and cleanup() deletes all. *)
Delete == /\ Goto("delete", "done")
          /\ life' = [o \in Objects |-> IF life[o] = "new" THEN "new" ELSE "freed"]
          /\ wake' = TRUE
          /\ UNCHANGED <<unchangedByTest, hasToStop, eqRunning, qpc>>

TestStep == \/ Available \/ UnregisterService \/ StopLoop \/ StopQueue("stop", "spin") \/ Spin
            \/ CheckQueue \/ StopQueue("stop2", "both") \/ WaitBoth \/ JoinLoop \/ JoinQueue
            \/ Delete

Next == Library \/ LoopStep \/ QueueStep \/ SpuriousWakeup \/ TestStep

(* A thread whose next step is possible again and again takes it: the scheduler *)
(* runs every thread and no mutex is withheld from one of them for ever.        *)
Spec == Init /\ [][Next]_vars
FairSpec == Spec /\ SF_vars(LoopStep) /\ SF_vars(QueueStep) /\ SF_vars(TestStep)

--------------------------------------------------------------------------------
(* No object is dispatched, or kept for a round, after it was deleted.  The    *)
(* loop's thread deletes what other threads have flagged while the queue's     *)
(* thread may be in the middle of a round: toDispatch and externalIteration-   *)
(* Mutex_ keep the two apart.                                                  *)
NoUseAfterFree ==
  /\ executing # None => life[executing] \in {"live", "flagged"}
  /\ tpc # "done" => \A o \in toDispatch : life[o] \in {"live", "flagged"}

(* While the queue's thread walks through the sets, the loop's thread does not *)
(* change them: it is outside of the part of its iteration that has the mutex. *)
InIteration == lpc \in {"reap", "prepare", "copy", "poll", "check"}
InExternal == qpc \in Kinds
RoundsExclusive == ~(InIteration /\ InExternal)

(* Refinement: the contract that MainLoop keeps, kept by two threads.  The     *)
(* object that is visited is held and its dispatch() decided on in one step.   *)
Stage(o) ==
  CASE life[o] = "new" -> "new" [] life[o] = "live" -> "registered"
    [] life[o] = "flagged" -> "unregistered" [] life[o] = "freed" -> "deleted"

stages == [o \in Objects |-> Stage(o)]
chosen == {executing} \ {None}
exists == tpc # "done"

Contract == INSTANCE DispatchContract WITH
  life <- stages, held <- chosen, decided <- chosen, open <- exists

(* Whatever the library calls between the steps of the three threads, no       *)
(* object is dispatched that is not registered, no two are at a time, and none *)
(* is deleted under the queue's thread or before its owner is done with it.    *)
ImplementsContract == Contract!Spec

(* registerWatch() does not end a poll that is under way, and the descriptor is *)
(* not in its copy: if nothing else happens, the watch is not seen any more.   *)
MissedByPoll(o) == lpc = "poll" /\ o \notin polled

(* An event of a registered source or watch is dispatched in the end, though a *)
(* notify may find nobody waiting and a round may be broken off, unless the    *)
(* loop is stopped, the object is unregistered, or it is a watch registered    *)
(* during a poll that never returns.                                           *)
Served ==
  /\ \A s \in Sources : (Live(s) /\ pending[s] > 0) ~> (pending[s] = 0 \/ ~Live(s) \/ hasToStop)
  /\ \A w \in Watches :
       (Live(w) /\ pending[w] > 0)
         ~> (pending[w] = 0 \/ ~Live(w) \/ hasToStop \/ [](MissedByPoll(w)))

(* TearDown() comes to its end: the stop reaches both threads wherever they    *)
(* are, the two joins return and the loop is deleted.                          *)
TearDownEnds == (tpc = "unregister") ~> (tpc = "done")

(* What keeps each of the three threads from its next step: a mutex that is    *)
(* taken, a poll, a wait or a join, and nothing else.                          *)
LoopCan ==
  CASE lpc = "while" -> hasToStop \/ ext = None
    [] lpc = "poll" -> wake \/ ReadyFds # {} \/ timed \cap due # {}
    [] lpc = "push" -> QueueIdle
    [] lpc = "relock" -> ext = None
    [] OTHER -> lpc # "done"
QueueCan == qpc \notin {"wait", "done"} /\ (qpc = "next" => turn = 0 \/ ext = None)
TestCan ==
  CASE tpc = "available" -> isAvailable
    [] tpc \in {"stop", "stop2"} -> QueueIdle
    [] tpc = "spin" -> ~eqRunning
    [] tpc = "both" -> ~running /\ ~eqRunning
    [] tpc = "joinLoop" -> lpc = "done"
    [] tpc = "joinQueue" -> qpc = "done"
    [] OTHER -> tpc # "done"

(* TearDown() is never stuck: as long as it is under way, one of the three     *)
(* threads can go on, without any help of the library.  No stop() is lost to a *)
(* thread that has yet to poll or to wait, and they do not wait in a circle    *)
(* for the two mutexes and for each other.                                     *)
TearDownNeverStuck ==
  tpc \notin {"available", "done"} => LoopCan \/ QueueCan \/ TestCan
================================================================================
