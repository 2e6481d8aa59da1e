# A specification of the CommonAPI C++ core tools

This directory holds TLA+ modules for the parts of `capicxx-core-tools` in which an order of
events, a recursion over user input or a race between threads decides whether the result is right,
the configurations that check them with TLC on small instances, and proofs for TLAPS that hold for
every instance. `PROJECT.json` says which lines of the source each definition stands for.

## 1. The system

The repository is a code generator with its command line, its validators and its test equipment:

    capicxx-core-gen *.fidl *.fdepl
      CommandlineToolMain ---- CommandlineValidator ---- CommonApiValidator, Franca rules
            |                        |
            |                        +-- StandaloneModelPersistenceHandler   (loads for the validator)
            v
      FrancaGenerator.doGenerate()
            |-- FDeployManager.loadModel()                  (loads for the generator)
            |-- doGenerateDeployment(), getAccessor()       (which deployment belongs to which model)
            +-- doGenerateModel()
                  |-- FInterfaceProxyGenerator, FInterfaceStubGenerator, ...
                  +-- FTypeGenerator.sortTypes(), FTypeCycleDetector
                                          |
                                          v
                        generated C++ (stub default, adapter, proxy)  <-- several threads
                                          ^
      verification tests ---- VerificationMainLoop.hpp, VerificationMainLoopWithQueue.hpp

### Inventory

| Component (source) | State | Operations | What is hard | What makes it correct |
|---|---|---|---|---|
| Main loop of the tests (`verification/src/utils/VerificationMainLoop.hpp`) | lists of sources, watches, timeouts with their flags; managed descriptors; what is to be dispatched; `hasToStop_`, `running_`, `isBroken_` | register, unregister, `run`, `doSingleIteration`, `runVerification`, `stop`, `wakeup`, destructor | threads unregister while the loop dispatches without a lock; `erase` in a `for` that also advances; broken rounds; lost wakeups | nothing deleted is used, nothing registered is forgotten, `stop()` ends `run()`, timeouts fire once |
| Main loop with an event queue (`VerificationMainLoopWithQueue.hpp`) | as above, a queue with its own thread, the mutex held for an iteration | `pushToQueue`, `run` of the queue, `doExternalIteration` | two mutexes in two orders, `wait()` without predicate, a queue that is never emptied | no deadlock; every dispatch runs |
| Generator's loader (`FDeployManager.java`, frame in `FrancaGenerator.xtend`) | `importsLoadedList`, maps of deployment, interface and specification models; shared by all files of a command line | `loadModel` (recursive), `clear...` | the list is cleared by every return of the recursion; import cycles; exceptions leave state behind | exactly the import closure is loaded, the recursion ends |
| Validator's loader and verdict (`CommandlineValidator.java`, `StandaloneModelPersistenceHandler.java`) | resource set, list of URIs, message acceptor | `validateDeployment`, `loadModel`, `validate(ResourceSet)` | import cycles, missing, ignored and empty files | the verdict is about the closure, all of it |
| Generation driver (`FrancaGenerator.xtend`) | maps of models and deployments, accessors, `generatedFiles` | `doGenerate`, `doGenerateDeployment` (recursive), `doGenerateModel`, `doInsertAccessor`, `getAccessor` | code is written while accessors are missing; HashMap order; recursion without a record | each model is written last with all its accessors |
| Stub templates (`FInterfaceStubGenerator.xtend`) | per attribute: value; per adapter: mutex; `stubAdapter_` weak pointer | `setXAttribute`, `trySetXAttribute`, `onRemoteSetXAttribute`, `lockXAttribute`, `getXAttribute` | the mutex is reached through a weak pointer; the value is read again without the mutex | writers exclude each other; no change stays unannounced; no torn answer |
| Type order (`FTypeGenerator.xtend`, `FTypeCycleDetector.xtend`) | Tarjan's maps and stack; the sorted list | `hasCycle`, `tarjan` (recursive), `sortTypes` | an insertion sort over a partial order; lowlinks; types of other collections | each type follows all it refers to; cycles are refused |
| Generator's command line (`CommandlineToolMain.java`, `CommandLineHandler.java`, `GeneratorFileSystemAccess.java`, `FPreferences.java`) | error state, preferences, output configuration, list of generated files, one generator for all files | `generateCode`, `doGenerate`, option handling | what one file or one failure leaves for the next | one invalid file does not change the others' output; the exit code tells |
| Console dispatch (`org.genivi.commonapi.console`) | command list from extension points | `execute` | options are matched to several commands | the right command runs |
| Names of arguments (`ValidateElements.java`, `CppKeywords.java`) | lists of elements and of output arguments to be renamed; shared by all files of a command line | `validateFDModelElements`, `validateFModelElements` | an argument is collected twice, by itself and by its deployment; the list is changed in the loop over it; an exception leaves the lists as they are | an output argument with the name of an input argument gets one suffix, on every file |
| Interface rules (`CommonApiValidator` and its helpers) | none but the resource being checked | one check per rule | recursive search for cyclic managed interfaces | it ends and reports |
| Verification tests and stubs (`verification/src/*.cpp`) | fixture members, locals captured by reference, members of the stubs; proxies, services, subscriptions | the tests, their callbacks and threads, the methods of their stubs | callbacks run on the threads of the connections while the test waits, unsubscribes, deletes the proxy or leaves its scope; calls before the service is there; waits inside callbacks | no assertion depends on the schedule, nothing is used after its scope, every test ends |
| Deployment rules, generated accessors, templates' text, Eclipse UI, examples, build | none of their own or text only | | | |

The components talk through calls in one thread, except for the generated stubs and the main loops.
Nothing is persisted but the generated files; no component recovers from a crash.

## 2. The modules

Each module names in its comments the functions it models; its actions carry the names of functions
or of the step of the function they are. `*Proofs.tla` holds the theorems, `MC*.tla` and `MC*.cfg` the
instances for TLC. Definitions commented as mutants are wrong versions of the definition below them;
no specification uses them. They document which bug each property would catch.

### MainLoop
One thread (`Loop`) is in `run()`, `doSingleIteration()`, `doVerificationIteration()` or `runVerification()`; the
`Clients`, and the loop's own callbacks, register and unregister. A step is one critical section, or one
access to an atomic that another thread can see. `pc` is the place of the loop's thread, `call[t]` the
rest of a registration call of thread `t`: `unregisterWatch()` is three steps (`wakeup()`, drop the
descriptor, flag the watch), `unregisterDispatchSource()` two (flag, `isBroken_`), `stop()` two.
`registered`, `managed`, `deleteObject`, `isExecuted`, `elapsed`, `toDispatch` and `interval` are the
members of the same names; `freed` is what has been deleted. `Reaped` is the effect of the deletion loops
of `doSingleIteration()`, which skip the entry after one they erase. `polled` is the local copy that
`poll()` makes of the descriptors. The environment lets time pass (`Elapse`) and data arrive (`Arrive`).

### DispatchContract
The abstract specification that both main loops implement: what a library that hands objects to a loop relies on. Of each
object it has its `life` (new, registered, unregistered, deleted), of the loop the object it has in its hands (`held`), whether
a dispatch of it is decided on (`decided`), and whether the loop exists (`open`). An action is a registration, an
unregistration, taking an object, deciding, letting it go, deleting what is unregistered and not in hands, or the end of the loop. Both loops map
`registered`, `deleteObject` and `freed` to `life`, `isExecuted` to `held` and the places right before and in a callback to `decided`.

### TwoThreadLoop
The variant of the main loop in which a second thread dispatches, with the test that runs both threads and tears them
down. `lpc`, `qpc` and `tpc` are the places of the loop's, the queue's and the test's thread; `ext` is the owner of
`externalIterationMutex_`. `queueLock_` needs no variable: the queue's thread holds it from the return of
`wait()` to the next `wait()`, so that `QueueIdle` says when another thread may lock it. `wait()` has no predicate: a
`notify` that finds nobody waiting is lost (`Notified`) and `SpuriousWakeup` may end a wait. `queued` is the size of
`queue_`, from which nothing is ever removed; `turn` counts the calls that are left of a round.
The other modules of the library are represented by `Library`: it registers and unregisters on any thread. Only the
unregistration of a watch wakes the loop (`unregisterFileDescriptor()`); a registration does not, so that a watch registered during
a `::poll()` is not in its copy, and if that poll has no limit and nothing else ends it, its data is never seen. `Served` excuses just
that (`MissedByPoll`).
`LoopCan`, `QueueCan` and `TestCan` say what each of the threads may be waiting for: the guards of its actions, and nothing of what
they assign.

### TestScript, TestBed and the tests
The tests are data: each is a sequence of the instructions of `TestScript`, and so are the callbacks it passes, the
threads it starts and the methods of its stubs. `AFManagedTests`, `AFSelectiveTests`, `CMBroadcastsTests`,
`CMAttributeSubscriptionTests` and `CMMethodCallsTests` hold the scripts of the file of that name; a `Suite` is the tests of
a fixture with their routines. An instruction stands for a statement: a flag that is set, a registration, a
subscription, a wait in a loop, an `EXPECT` or `ASSERT`, the end of a scope with the variables and proxies that go with it.

`TestBed` carries them out. `frames[t]` is what thread `t` has still to do: the thread of the test, those it starts, and one
thread per connection, which runs callbacks and the methods of stubs. The runtime and the binding are not part of the
repository; they are modelled from what the tests rely on and mapped as external:

* registration is synchronous, a proxy learns of it by a message, as do its status and instance listeners;
* a connection's `inbox` is a queue: messages are delivered in order, one callback at a time;
* a subscription becomes effective when the service has accepted it; a selective one asks the stub;
* no callback starts after its listener has been unsubscribed, but one that has started goes on;
* a call waits for the service if it is not there, and fails if it does not come; asynchronous calls have a short
  timeout (100 to 300 ms), which may be over at any time, or a long one (a second or more), which nothing but the end of all
  other activity outlasts;
* variables without an initial value start with any value of their type (`unset`).

Time is a relation of durations. A sleep of 10 or 20 ms (`Pause`), or a loop that waits for 1 ms in all (`WaitBriefly`), may be over before
any other thread has taken a step: it orders nothing. A loop of half a second or more in small steps (`WaitFor`) gives up only
when no thread can go on and no call is to be answered, `WaitForever` never. A sleep of 200 ms (`Sleep`)
outlasts the calls with a timeout of 100 ms, and nothing else. A failed `ASSERT` leaves the function it is in. `failed` collects the assertions that did not hold, `dead` the
variables whose scope was left.

`AssertionsHold` and `NoUseAfterScope` excuse single conditions and variables of single tests, those that `MCVerificationTests` lists as
`MCKnownRaces` and `MCKnownEscapes`; everything else in the same tests is checked, and with any entry removed the run fails. What is excused is what
the tests get wrong:

* after a sleep of 10 or 20 ms, `AsynchronousMethodCall` expects the answer (`CMMethodCalls.cpp:256`), `SubscriptionOnAvailable` the news that the service has
  gone (`CMAttributeSubscription.cpp:557`), and `GetAvailableInstancesWithoutSubscribe` the instances, of which it has awaited only the status, set before;
* the three tests of `MultipleDeregistration...` wait a hundred times 10 microseconds for the availability of a proxy (`AFManaged.cpp:895`);
* `SubscriptionMultithreading` deals with what its threads have received only as far as it has arrived;
* `SubscribeThreeCallbacksService...` wait until all callbacks were called, and the last of them stores its value after it has counted;
* `Two_proxies_subscribe_delete_one_proxy_status_listener_test` says that it checks all states (`CMBroadcasts.cpp:762`), tests
  `subStatus4` twice (line 766) and never `subStatus3`, and asserts `subStatus3` (line 770), which may still be on its way;
* `Fire_Selective_Within_Subscription_Changed_Hook` has not waited for its second proxy since the service returned;
* too late: in twelve tests a callback that has done what the test waits for may still be at its last statements when the test's variables
  go (`myCallback()` puts a value in the queue after it has stored it, `CMAttributeSubscription.cpp:79`); in `SubscriptionOnAvailable`, `SubscriptionMultithreading` and `SubscribeUnregisterSetValueRegisterService` a
  callback may begin only then, for a subscription that was not taken back.

### ImportGraph, LoadStack, ImportClosure, Descent
`ImportGraph` is what the loaders know of the disk: the kinds of files, and a graph of import statements
in their order. `Needed(g, r)` is the least set with `r` that is closed under import: the reference
definition, independent of any search. `LoadStack` is the call stack of a `loadModel()` that calls
itself: frames of a file and the position of its iterator. `ImportClosure` is the abstract loader: asked
for a file it answers, in one step, with the models of what is needed, or gives up if something needed is
missing, empty or `Fragile`: a deployment whose elements cannot be named. `Descent` holds the order in which the work that is
left of a recursion or a nest of loops becomes less (`Precedes`: tuples of numbers, the outermost loop first), for the
properties `LoadShrinks`, `SearchShrinks`, `GenerationShrinks` and `SortShrinks`.

### ModelLoader
`FDeployManager.loadModel()` and the frame of `FrancaGenerator.doGenerate()` around it, over up to
`MaxRuns` inputs on one manager. A step is one turn of the loop over the imports (`SkipImport`,
`ImportNothing`, `ImportModel`, `ImportThrows`) or one `Return`, with what the caller does with the
result (`RecordImport`, `RecordRoot`) and the `importsLoadedList.clear()` of every return. Maps are their
key sets. `NamingThrows` is a `Return` that fails because `validateFDModelElements()` throws. An exception (`Throw`) leaves list and maps as they are; `spoiled` remembers this. `Overflow` is a
nested call beyond `MaxDepth`. `DepthInv` says how deep the recursion gets, and `OverflowNeedsSpecification` when that is too
deep; `Left` of `LoadStack` is the work the calls under way have left.

### ElementNames
`ModelLoader` with the elements that `loadModel()` names before it returns. A file is a sequence of interfaces, an
interface a sequence of methods, a method the names of its arguments and which of them are deployed. An argument is known by
its name, so that no two outputs of a method share one.
`listOfOutArguments` is the list of that name between two calls: empty, or what a call that threw has left there.
`ReturnNamed` is `Return` with the naming, `NamingThrowsNamed` is `NamingThrows` with its reason: the loop drops the first
occurrence of the argument of the first deployment that has one in the list (`Pruned`), and then `hasNext()` compares the cursor with the shorter
list, so that only a removal that leaves nothing to visit is not noticed by `next()` (`PruneThrows`). The other steps name nothing.
`FragileContents` ties the constant `Fragile` of the loader to the contents. `named` holds, for checking, the arguments the last
step has named with the number of suffixes each has got. Every deployment has interfaces of its own here: two that deploy the
same one name the same arguments, one after the other.

### StandaloneLoader
`CommandlineValidator.validateDeployment()`: load with all imports, then `outputDiagnostics()`, then the
registered validators over every resource, in any order, then the verdict. `invalid` is the set of files a
validator objects to.

### DeploymentGenerator
What `doGenerate()` does with the loaded models. A frame of `stack` is a call of
`doGenerateDeployment()` with the loop it is in (`stage`) and the entries the loop has still to visit
(`todo`, a set: HashMaps are iterated in any order). `accessors` is the key set of `accessors__`; of the
code of a model we keep `seen[m]`, the accessors that were there when it was written last. The module starts
where `ModelLoader` ends: its `Start` takes the models that `LoadedIsNeeded` says there are.

### StubAttribute
One observable attribute of the generated default stub. A step is one lock operation, or the beginning
or the end of one access to the attribute: `Compare` begins what `Assign` ends, so that another thread that
reads in between may get `Torn`. `held` are the threads whose local `shared_ptr` keeps the adapter alive,
`owner` the thread that has locked the adapter's mutex, `registered` whether the runtime holds the
adapter. The binding's getter and the runtime are modelled from how the templates use them and mapped as
external.

### AttributeContract
The abstract attribute that `StubAttribute` implements while its service is registered: it goes from one valid value to the next at
once, a thread that changed it owes a notification (`owing`), and the last notification that is owed leaves the value announced
(`fresh`). An assignment that finds a difference maps to `Change` where it ends, under the mutex; everything between it and `fireXAttributeChanged()` is
hidden, and so is all that happens after `unregisterService`.

### TypeOrder
`sortTypes()`: first the cycle detector, one frame of `calls` for each `tarjan()` under way, then the
insertion sort, one step for each comparison. `indices` counts from 1, with 0 for a type that is no key.
`Referenced` is the transitive closure, which `getReferencedTypes()` computes by a recursion without a record:
it is right where the recursion ends, and `Endless` says where it does not.

## 3. The runs

| Run | Instance | Shows |
|---|---|---|
| `mainloop_entries` | one source, one timeout, one client thread, `run()` with its default argument and all other entry points, two entries, two events | memory safety (`NoUseAfterFree`), at most one dispatch after an unregistration (`LateDispatchBound`), `ImplementsContract` |
| `mainloop_run` | `run()` with the default or a finite timeout, and two sources of different priority, or a watch and a timeout (`SmallInstance` of `MCMainLoop` keeps the combinations apart) | `FiresOnce`, `WatchHasEvent`, `FlaggedNotPolled`, `DueFires`, `StopHonoured`, `WakeupServes`, `UnregisteredFreed` in spite of skipped entries, `DataServed` in spite of broken rounds |
| `mainloop_lost_stop` | one source | finding: a `stop()` is lost |
| `two_thread_loop` | any two of: two sources, a watch, a timeout, registered and unregistered at any time | `NoUseAfterFree`, `RoundsExclusive`, `TearDownNeverStuck`, `ImplementsContract`, `Served`, `TearDownEnds` |
| `loader` | two inputs over 1140 import graphs: up to four deployments, one of which cannot be named, an interface, a specification, a missing and an empty file; over five of the graphs, 117 contents of one or two methods with up to two names, one of them a keyword | `LoadedIsNeeded`, `LoadedOnce`, `SuffixedOnce`, `LoadEnds`, `ImplementsClosure` |
| `loader_specification_cycle` | two deployments and a specification file | finding: unbounded recursion |
| `loader_equal_names` | the five graphs and 117 contents | finding: methods with equal names in and out |
| `standalone_loader` | all graphs of a cyclic family with a missing, an ignored and an empty file, three sets of rejected files | `NoReentry`, `VerdictIsRight`, `VerdictReached`, `ImplementsClosure` |
| `generator` | 1120 graphs of three deployments, a specification and three interfaces, every root, with and without dependencies, every map order | `OutputIsDeployed`, `NoStackOverflow`, `GenerationEnds` |
| `stub_attribute` | two setters with two calls each, a getter with two, three values of which one is invalid | `WritersExclusive`, `ChangeAnnounced`, `GetterSeesWhole`, `ImplementsContract`, `CallsReturn` |
| `type_order` | every way in which four types refer to at most two of each other (one of them to at most one), the fourth in or outside of the collection | `DeclaredInOrder`, `VerdictIsRight`, `SortEnds` |
| `verification_tests` | every test of the five files that the test modules translate, one at a time, with every schedule of its threads, sleeps that may be over at once, and single conditions and variables excused (section 2) | `AssertionsHold`, `NoUseAfterScope`, `TestEnds` |

`TypeOK` is proved of every module that has one (MainLoop, TwoThreadLoop, both loaders, DeploymentGenerator, StubAttribute,
TypeOrder) and takes no run; TestBed, whose variables hold data of the scripts, has none. Nor have `CallsNeverStuck`, `OverflowNeedsSpecification`
and the `...Shrinks` properties a run: they are proved (section 5), and the liveness properties of the runs say more on the instances.

### Bounds

`MaxEntries`, `MaxRounds` and `MaxData` (MainLoop) bound how often the loop is entered, how many iterations
`runVerification()` makes and how many events arrive. Two entries are needed because what one entry leaves in
the sets to be dispatched is found by the next; two events because a source is asked again after the first.
An object is registered at most once, as the tests do it: a second registration would be a new object in
the code too (it allocates a new struct). The deletion loops skip an entry only if two neighbours of one
kind are flagged, which the two sources of `mainloop_run` can be. One client thread and the callbacks of the
loop give two threads that call; the theorems are for any number.

`MaxRuns = 2` lets one input find what another one left. Two names and two methods give lists of up to three deployments and
three arguments, with the first pair at the end, before the end and after an entry without a deployment; contents vary only on the
graphs where files import few others. `MaxDepth` stands for the size of the Java stack;
in the loader's runs it is larger than any path without repetition, so that only a recursion that goes round
a cycle reaches it, and in `generator` it is one more than the number of deployments, the hypothesis of `GeneratorOverflow`.
`NoStackOverflow` there says that only cyclic graphs exceed it.
`MaxCalls = 2` (StubAttribute) lets a thread come back while another one is between its assignment and
its notification.

`MaxObjects = 2` (TwoThreadLoop) allows each pair of kinds, which is what a round with something before and after needs.
`MaxQueue = 2` tells an empty queue, one call and several apart: calls beyond the first find the sets empty or what was
added since. Of each object one event is enough to be ready.

TestBed is bounded by its scripts. Loops that repeat one action are shorter than in the code, as parameters of the
modules that hold the scripts: `Many` (4 services instead of 20) and `Rounds` in AFManagedTests, `Values` (10),
`Threads` (2 instead of 10) and `Returns` (3) in CMAttributeSubscriptionTests, `MaxTimeoutCalls` (4) and `Calls` (3 instead of 250)
in CMMethodCallsTests. The assertions compare a count with the same constant, and a callback acts on a count only when
it reaches that constant, so that longer loops repeat the states of shorter ones.

Deadlock is not checked: each of these systems may really stop (the loop is destroyed, all inputs
are done, the calls are used up). That it does not stop where it should go on is what the
liveness properties say, and `TearDownNeverStuck` and `CallsNeverStuck` where threads wait for each other.

### Fairness

* MainLoop: the loop's thread goes on (`WF_vars(LoopStep)`), a thread that has begun a registration call
  finishes it, time passes for every registered timeout. Nobody has to begin a call, enter the loop or
  send data. The calls of the code are straight-line code under mutexes that are never held while
  waiting. A `poll()` with an infinite interval is not enabled without a ready descriptor, so fairness
  does not end it. That callbacks return is assumed: they belong to the tests.
* TwoThreadLoop: strong fairness of each of the three threads: one whose next step is possible again and again takes it. Weak
  fairness would let a thread lose the race for a mutex for ever, which a scheduler does not do. The library need
  not call, `wait()` need not wake up spuriously.
* TestBed: something happens as long as something can (`WF_vars(Next)`). Each test is finite, so no
  thread can be passed over for ever.
* ElementNames, StandaloneLoader, DeploymentGenerator, TypeOrder: one thread that never waits, hence weak fairness of its
  steps. Starting another input is not fair.
* StubAttribute: a thread inside a call goes on. Weak fairness is enough for the mutex, as no thread can
  make calls without end (`MaxCalls`).

`StopHonoured` starts after the `reset` step: what happens before it is the finding below.
`WakeupServes` and `DueFires` except runs that were stopped and objects that were unregistered, because
then nobody waits for the answer.

## 4. Findings

* `mainloop_lost_stop`: `run()` sets `running_` before it clears `hasToStop_`
  (`VerificationMainLoop.hpp:242`). A caller that waits for `isRunning()` and then calls `stop()`, as
  `THMainLoopIndependence.cpp` does, may have its request overwritten; `run()` then never returns. The
  comment above `run()` promises the contrary.
* `loader_specification_cycle`: `loadModel()` clears `importsLoadedList` at every return
  (`FDeployManager.java:170`), also for the calls around it, and a file with specifications is in none of the maps
  that would still recognise it. If such a file is imported between two members of an import cycle, the
  recursion goes round until the stack overflows, although the list is there "to check the cyclic imports".
  `LoadEnds` shows that nothing else makes it overflow, and `LoaderOverflow` proves it for any graph, given a stack for the square
  of the number of files.
* `loader_equal_names`: `CHANGES:50` says that duplicate argument names are accepted for the input and output of a method.
  `validateFDModelElements()` removes from `listOfOutArguments` inside the loop over it (`ValidateElements.java:106`); if the
  first removal is not of the last entry, the next turn throws a `ConcurrentModificationException`. Two methods with a deployed
  pair of equal names, or one with a deployed and one with another pair, are enough. The command line catches the exception and goes on
  with the next file, whose elements are then collected behind those that are left, so that a single pair may fail there.
  `SuffixedOnce` shows that the names are right wherever no exception is thrown.

## 5. The proofs

All theorems are for arbitrary values of the constants, under the named assumptions of the modules
(finite sets of objects and files, kinds that are disjoint, files without contents import nothing, bounds that
are natural numbers). None of these restricts the code: files are finite in number, and a file is of
one kind.

| Module | Theorems | Argument |
|---|---|---|
| `MainLoopProofs` | `MainLoopType`, `MainLoopInvariant`, `MainLoopMemorySafe`, `MainLoopLateDispatch`, `MainLoopFlaggedNotPolled`, `MainLoopDispatch`, `MainLoopFiresOnce`, `MainLoopWatchHasEvent`, `MainLoopImplements` | `NoUseAfterFree` is not inductive: that nothing to be dispatched is freed needs that the deletion loops consult the sets (`MemoryInv`: what is to be dispatched is registered, what is registered is not freed, at most one object is executing), and that a call's object is known and is nobody else's (`CallInv`). The bound on late dispatches needs where the loop's thread is (`LateInv`). `MainLoopFlaggedNotPolled` is about `managedFileDescriptors_` and about the copy at the moment it is made (`CopiedUnflagged`, from the lemma that only `PollCopy` extends it); a watch that is unregistered after that stays in the copy until the `::poll()` is over. `FiresOnce` and `WatchHasEvent` follow from `DispatchInv`: a round dispatches only what it has visited, of its own kind (`RoundInv`); a timeout that has not elapsed or is yet to be visited has not fired (`TimeoutInv`); an event that `poll()` has found stays until the watch's round (`PolledInv`). Refinement of `DispatchContract`: what a step does to an object's stage is read off the sets it changes (lemmas `StageBecomes`, `StagesKept`); the deletion loops and the destructor delete what the invariant says is flagged and not executing. |
| `TwoThreadLoopProofs` | `TwoThreadType`, `TwoThreadInvariant`, `TwoThreadExclusive`, `TwoThreadNoUseAfterFree`, `TwoThreadImplements`, `TwoThreadStop`, `TwoThreadNeverStuck` | Who is in the middle of an iteration or of a round owns `externalIterationMutex_`; what the round has left to visit stays among what is to be dispatched, which `Reap` spares; the test deletes the loop only after both joins. The same contract as MainLoop's is implemented, by two threads that dispatch: exclusiveness of the rounds is what makes "one object at a time" true. `TearDownNeverStuck` needs to know where a stop cannot be lost (`StopInv`): after the test has seen both threads run they are past the places that set `running_` and `hasToStop_` anew, `hasToStop` comes with a wakeup that no poll sleeps through, and the queue's thread does not begin a wait once `running_` is cleared. Of three threads that wait, one would then wait for a mutex that is free. |
| `LoadStackProofs` | lemmas (`NoEndlessDescent` among them) | What advancing, pushing and popping do to the files on the stack and to what their iterators are through with; `Needed` is closed and least. The generator's proofs use them too: its recursion is over the same graphs. `NoEndlessDescent`: no infinite sequence of tuples of one length descends in `Precedes`, from the library's theorem on lexicographic orderings; each turn of a loop, call and return lowers `Left`. |
| `ModelLoaderProofs` (also of `ElementNames`) | `LoaderType`, `LoaderInvariant`, `LoaderLoadsNeeded`, `LoaderLoadsOnce`, `LoaderDepth`, `LoaderOverflow`, `LoaderShrinks`, `LoaderImplements`, `NamesLoads`, `NamesLeftovers`, `NamesSuffixedOnce` | `SeenInv` relates what was read, what is on the stack and what is recorded: everything read and off the stack has its imports read and itself recorded, although the list was cleared. `LoaderLoadsOnce` adds that the files below a call need the file of the call, so that a second read closes a cycle. Depth: a file is loaded inside its own load only after the list was cleared, which a model does that returns and is known from then on, so that the calls for one file at a time are paid for by the models that became known (`Paid`), at most as many as there are files, and the calls for all files at most the square. A file with specifications clears the list too and is never known: hence the exception, which the run `loader_specification_cycle` shows to be needed. Refinement: `loading` states map to one request, the last return to the answer; states after an exception are hidden. `NamesLoads`: each step of `ElementNames` is one of the loader's, so that all of this holds with the naming. `NamesLeftovers`: a file that is not named leaves the list of the arguments as it is, but the last call to return is that for the root, which is named, and it clears both lists (`LeftoverInv`). `NamesSuffixedOnce`: what is in the list at the start of a call is of earlier calls (`ListInv`); the call adds each argument that shares a name once, and once more, before, for its deployment (`CollectedListing`), so that a loop that does not throw has met the only deployment of this call one place before the end and has dropped the argument behind it (`OncePruned`). `FlattenSeq`, which makes the list, is unfolded by a least counterexample over the numbers (`NatInSet`, `FlattenKeeps`). |
| `StandaloneLoaderProofs` | `StandaloneType`, `StandaloneInvariant`, `StandaloneVerdict`, `StandaloneNoReentry`, `StandaloneShrinks`, `StandaloneImplements` | The invariant of depth-first search (`SearchInv`) and what the judging parts go on (`JudgeInv`). No file is on the stack twice, so that the stack is never deeper than there are files (`RoomIsEnough`), and the measure is a tuple of that length. |
| `DeploymentGeneratorProofs` | `GeneratorType`, `GeneratorInvariant`, `GeneratorOutput`, `GeneratorRecursion`, `GeneratorDepth`, `GeneratorOverflow`, `GeneratorShrinks` | For whatever is still missing there is a call on the stack that will supply it: an accessor and a visit (`VisitedInv`), the code of a model whose accessor came late (`CodeInv`). At the end the stack is empty, so nothing is missing. Depth: each call is for a file that is needed below all calls around it (`Nested`), so that without a cycle the calls are for different deployments, and by the pigeonhole principle no more than there are of them. `GeneratorDepth` says this for any stack; `GeneratorOverflow` has the hypothesis that the stack holds one call more than there are deployment files (the root may be a `.fidl` file), without which a long chain of imports would overflow it as well. `GeneratorShrinks`: a loop starts over at most as many entries as there are files, so that a call has least left in its last loop (`CallLeft`). |
| `StubAttributeProofs` | `StubType`, `StubWritersExclusive`, `StubChangeAnnounced`, `StubGetterSeesWhole`, `StubNeverStuck`, `StubImplements` | A thread that holds the adapter keeps it alive for all, so all go through the mutex or none (`Guarded`); a reader under the mutex meets no assignment (`WholeReads`); while a change is unannounced some setter is on its way to announce it (`Announcing`). For the refinement, what the setter found when it compared is still so when it assigns (`DifferenceKnown`). `StubNeverStuck`: a mutex that is locked will be unlocked by a thread at work, or the adapter it lives in is gone (`MutexComesBack`), and who waits for a mutex keeps its adapter alive. |
| `TypeOrderProofs` | `OrderType`, `SortInvariant`, `OrderIsRight`, `DetectorIsRight`, `OverflowIsSelfReference`, `OrderShrinks` | The scan has passed only types that do not refer to the new one; the type at which it stops refers to it and hence, references being transitive, to all it refers to, and so do the sorted types after it not precede what they need. A type that refers to itself would break the argument; there the recursion of `getReferencedTypes()` has overflowed. `DetectorIsRight` is the correctness of Tarjan's algorithm with this code's lowlinks, from `DetectorInv`: the stack is ordered by indices (`StackInv`); a call refers to all that is above its type on the stack, and everything on the stack reaches the type of a call that began no later (`CallsInv`); a lowlink is the index of a type that is reached and still on the stack, and no higher than that of any such type followed so far (`LowlinkInv`, `FollowedInv`); what has left the stack refers only to what has left it, and is in no cycle (`DoneInv`). With it, `OverflowIsSelfReference` says that only a type that refers to itself directly makes sorting overflow. `OrderShrinks`: a new `tarjan()` takes a type from those without an index, a return takes a call, every other step a reference; the sort goes on in a list that is as long as what was inserted. |

Liveness is out of the prover's reach, which has no rule for `ENABLED`: `UnregisteredFreed`, `DataServed`, `DueFires`,
`StopHonoured`, `WakeupServes`, `Served`, `TearDownEnds`, `LoadEnds`, `VerdictReached`, `GenerationEnds`, `CallsReturn`, `SortEnds` and `TestEnds` are
model-checked. Of six of them the part that is safety is proved. A recursion or a loop can fail to end only by
going on for ever: `LoadShrinks`, `SearchShrinks`, `GenerationShrinks` and `SortShrinks` say that a measure, a tuple of natural numbers,
descends with every step, and `NoEndlessDescent` that it cannot do so for ever, whatever the graph. Threads can also fail to end by
waiting for each other: `TearDownNeverStuck` and `CallsNeverStuck` say that of those under way one can go on. What remains for the runs
to show is that the step that can be taken is: that one thread that never waits has a next step wherever it is, and fairness.
`LoopCan`, `QueueCan`, `TestCan` and `Waits` are read off the guards of the actions; on the instance of `two_thread_loop`, TLC finds the
first three equal to `ENABLED` of the steps of their thread.

Model-checked only are also `AssertionsHold` and `NoUseAfterScope`, whose invariants would be different ones for each script. No
module uses a RECURSIVE operator: recursion of the code is an explicit stack.

## 6. What is not modelled, and why

* `verifyEqualInOutAndAddSuffix()`, which the validators call on trees of their own, the suffixes of attributes, fields and
  enumerators (one loop each, over lists that it does not change), and the preferences that switch common, proxy or stub code off: data of the files written.
* Which accessor `getAccessor()` falls back to for a model without one: `OutputIsDeployed` shows that no
  code made with it remains.
* `LoadedIsNeeded`, `ImplementsClosure` and the theorems about them exempt the calls right after one that threw (`spoiled`): the code does leave stale entries in the
  list and in the maps then. `doGenerate()` of the command line goes on with the next file all the same; this is listed as a
  hazard.
* A type that refers to itself is no cycle for the detector, and sorting it exhausts the stack: `VerdictIsRight` and `SortEnds` exempt it,
  `OverflowIsSelfReference` proves that nothing else does so. It is listed as a hazard.
* Cyclic deployments exhaust the stack of `doGenerateDeployment()`. No text of the repository promises
  more, so this is a hazard and not a finding.
* Initialising the stub adapter's weak pointer while setters run, torn copies for a notification, and
  the order in which two notifications arrive: listed as hazards with the reason.
* The division by zero of `runVerification()` is a state (`crashed`) from which nothing is claimed.
* Tests without an order to get wrong: `DT*` and `AFPolymorph` send data and compare what comes back, `StabilitySP`
  repeats and measures; `CMAttributes`, `CMBlockingCalls` and the `TH*` files are not scripts of TestBed (the main
  loops that `TH*` drive are modules of their own).
* What the runtime and the binding do when connections fail: they are not in this repository, and no test makes one fail.
* UI, console dispatch, templates as text, examples, docs and build files.

## 7. Plan

Done: MainLoop and TwoThreadLoop with the contract both implement, the loaders with their abstract specification, the names of arguments, DeploymentGenerator, StubAttribute with the abstract attribute,
TypeOrder, each with its theorems; TestBed with the scripts of five test files. Next, in this order:

1. `CommandlineTool`: the loop of `CommandlineToolMain` over the files with error state, validation flag, output
   configuration and file list, composed with `ModelLoader`'s effect on the next file. Properties: what one file
   leaves does not change the next one's result; exit code.
2. `validateResourceWithImports()` for `.fidl` files, next to `StandaloneLoader`.
3. `CMAttributes`, `CMBlockingCalls`, `THMainLoopIntegration` and `StabilitySP` as further suites of `TestBed`.
4. The search for cyclic managed interfaces as a pure algorithm, checked against a reference definition.
