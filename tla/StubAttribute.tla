---------------------------- MODULE StubAttribute ----------------------------
(***************************************************************************)
(* One observable attribute of a generated default stub, set by several    *)
(* threads: those of the application, through setXAttribute(), and those   *)
(* of the binding, through RemoteEventHandler::onRemoteSetXAttribute().    *)
(* The attribute is guarded by a mutex that lives in the stub adapter, to  *)
(* which the stub has a weak pointer only; it is compared and assigned     *)
(* under the mutex, but read again for the notification without it.        *)
(*                                                                         *)
(* The binding's getter takes the mutex with Stub::lockXAttribute(), which *)
(* looks the adapter up for the unlocking once more.  The service may be   *)
(* unregistered at any time, once.                                         *)
(***************************************************************************)
EXTENDS Naturals, FiniteSets

CONSTANTS
  Setters,   \* threads that set the attribute
  Getters,   \* threads of the binding that read it
  Values, Valid, Initial,
  Torn,      \* what reading a value that is being written may give
  NoThread,
  Wide,      \* the attribute is not read and written in one piece
  MaxCalls   \* bound: calls of one thread

Threads == Setters \cup Getters

ASSUME StubAttributeAssumption ==
  /\ Setters \cap Getters = {} /\ NoThread \notin Threads
  /\ Valid \subseteq Values /\ Initial \in Values /\ Torn \notin Values
  /\ Wide \in BOOLEAN /\ MaxCalls \in Nat

VARIABLES
  value,       \* the attribute
  registered,  \* the runtime holds the adapter
  owner,       \* the thread that has locked the adapter's mutex
  pc,          \* where each thread is
  arg,         \* _value of trySetXAttribute()
  held,        \* the threads that hold the adapter
  changed,     \* valueChanged
  got,         \* what a getter has read
  calls,       \* calls made by a thread
  announced,   \* history: the value has been notified since it changed
  current      \* history: the setters that have read it since it changed

local == <<arg, changed, got, calls>>
history == <<announced, current>>
vars == <<value, registered, owner, pc, held, local, history>>

Places == {"idle", "adapter", "lock", "compare", "assign", "unlock", "result",
           "read", "fire", "getLock", "get", "getUnlock"}

(* The values that validate and the one the attribute is constructed with. *)
Settable == Valid \cup {Initial}
Readable == Settable \cup {x \in {Torn} : Wide}

TypeOK ==
  /\ value \in Readable /\ registered \in BOOLEAN
  /\ owner \in Threads \cup {NoThread}
  /\ pc \in [Threads -> Places] /\ arg \in [Setters -> Settable]
  /\ held \subseteq Threads /\ changed \in [Setters -> BOOLEAN]
  /\ got \in [Getters -> Readable] /\ calls \in [Threads -> Nat]
  /\ announced \in BOOLEAN /\ current \subseteq Setters

Init ==
  /\ value = Initial /\ registered = TRUE /\ owner = NoThread
  /\ pc = [t \in Threads |-> "idle"] /\ arg = [t \in Setters |-> Initial]
  /\ held = {} /\ changed = [t \in Setters |-> FALSE]
  /\ got = [t \in Getters |-> Initial] /\ calls = [t \in Threads |-> 0]
  /\ announced = TRUE /\ current = {}

-----------------------------------------------------------------------------
At(t, place) == pc[t] = place
Goto(t, place) == pc' = [pc EXCEPT ![t] = place]

(* stubAdapter_.lock() gives the adapter while the runtime or any thread has it. *)
Alive == registered \/ held # {}

(* Another thread is in the middle of its assignment. *)
Racing(t) == \E u \in Setters \ {t} : At(u, "assign")

(* What a read of the attribute gives. *)
Readings(t) == IF Racing(t) /\ Wide THEN Readable ELSE {value}

(* What its assignment leaves behind: two at once may mix what they write. *)
Written(t) ==
  {arg[t]} \cup {x \in {Torn} : Wide /\ (Racing(t) \/ value = Torn)}

(* setXAttribute() and onRemoteSetXAttribute() call trySetXAttribute(), which  *)
(* returns at once when the value does not validate.  After the second it is   *)
(* the binding that reads the value back and sends the notification.           *)
Set(t, v) ==
  /\ At(t, "idle") /\ calls[t] < MaxCalls
  /\ calls' = [calls EXCEPT ![t] = @ + 1]
  /\ IF v \in Valid
       THEN arg' = [arg EXCEPT ![t] = v] /\ Goto(t, "adapter")
       ELSE UNCHANGED <<arg, pc>>
  /\ UNCHANGED <<value, registered, owner, held, changed, got, history>>

(* Mutant: the adapter is taken only while the runtime has it. *)
TakeAdapterIfRegistered(t) ==
  /\ At(t, "adapter")
  /\ IF registered
       THEN held' = held \cup {t} /\ Goto(t, "lock")
       ELSE Goto(t, "compare") /\ UNCHANGED held
  /\ UNCHANGED <<value, registered, owner, local, history>>

TakeAdapter(t) ==
  /\ At(t, "adapter")
  /\ IF Alive
       THEN held' = held \cup {t} /\ Goto(t, "lock")
       ELSE Goto(t, "compare") /\ UNCHANGED held
  /\ UNCHANGED <<value, registered, owner, local, history>>

(* Mutant: the mutex is not waited for. *)
LockAlways(t) ==
  /\ At(t, "lock")
  /\ owner' = t /\ Goto(t, "compare")
  /\ UNCHANGED <<value, registered, held, local, history>>

Lock(t) ==
  /\ At(t, "lock") /\ owner = NoThread
  /\ owner' = t /\ Goto(t, "compare")
  /\ UNCHANGED <<value, registered, held, local, history>>

Compare(t) ==
  /\ At(t, "compare")
  /\ \E x \in Readings(t) : changed' = [changed EXCEPT ![t] = x # arg[t]]
  /\ Goto(t, "assign")
  /\ UNCHANGED <<value, registered, owner, held, arg, got, calls, history>>

(* History: nobody has read or announced the new value. *)
Changed ==
  /\ announced' = (announced /\ value' = value)
  /\ current' = IF value' = value THEN current ELSE {}

(* The end of the assignment, which is made whether the value differs or not. *)
Assign(t) ==
  /\ At(t, "assign")
  /\ value' \in Written(t)
  /\ Changed /\ Goto(t, "unlock")
  /\ UNCHANGED <<registered, owner, held, local>>

(* Mutant: the mutex stays locked. *)
UnlockNot(t) ==
  /\ At(t, "unlock")
  /\ held' = held \ {t} /\ Goto(t, "result")
  /\ UNCHANGED <<value, registered, owner, local, history>>

(* With the return of trySetXAttribute() the adapter is let go. *)
Unlock(t) ==
  /\ At(t, "unlock")
  /\ owner' = IF t \in held THEN NoThread ELSE owner
  /\ held' = held \ {t}
  /\ Goto(t, "result")
  /\ UNCHANGED <<value, registered, local, history>>

(* Mutant: the setter notifies whether the value differs or not. *)
ResultAlways(t) ==
  /\ At(t, "result") /\ Goto(t, "read")
  /\ UNCHANGED <<value, registered, owner, held, local, history>>

Result(t) ==
  /\ At(t, "result")
  /\ Goto(t, IF changed[t] THEN "read" ELSE "idle")
  /\ UNCHANGED <<value, registered, owner, held, local, history>>

(* The attribute is read for the notification, without the mutex. *)
Read(t) ==
  /\ At(t, "read")
  /\ current' = current \cup {t}
  /\ Goto(t, "fire")
  /\ UNCHANGED <<value, registered, owner, held, local, announced>>

(* fireXAttributeChanged(): nothing without an adapter. *)
Fire(t) ==
  /\ At(t, "fire")
  /\ announced' = (announced \/ (Alive /\ t \in current))
  /\ current' = current \ {t}
  /\ Goto(t, "idle")
  /\ UNCHANGED <<value, registered, owner, held, local>>

-----------------------------------------------------------------------------
(* The binding answers a get request: lockXAttribute(true), getXAttribute(), *)
(* lockXAttribute(false).  While it waits for the mutex it holds the adapter, *)
(* and lets it go when the call returns.                                      *)
Get(t) ==
  /\ At(t, "idle") /\ calls[t] < MaxCalls
  /\ calls' = [calls EXCEPT ![t] = @ + 1]
  /\ IF Alive
       THEN held' = held \cup {t} /\ Goto(t, "getLock")
       ELSE Goto(t, "get") /\ UNCHANGED held
  /\ UNCHANGED <<value, registered, owner, arg, changed, got, history>>

(* Mutant: the getter does not wait for the mutex. *)
GetLockAlways(t) ==
  /\ At(t, "getLock")
  /\ held' = held \ {t} /\ Goto(t, "get")
  /\ UNCHANGED <<value, registered, owner, local, history>>

GetLock(t) ==
  /\ At(t, "getLock") /\ owner = NoThread
  /\ owner' = t /\ held' = held \ {t} /\ Goto(t, "get")
  /\ UNCHANGED <<value, registered, local, history>>

GetValue(t) ==
  /\ At(t, "get")
  /\ \E x \in Readings(t) : got' = [got EXCEPT ![t] = x]
  /\ Goto(t, "getUnlock")
  /\ UNCHANGED <<value, registered, owner, held, arg, changed, calls, history>>

(* The mutex of an adapter that is gone by now is never unlocked. *)
GetUnlock(t) ==
  /\ At(t, "getUnlock")
  /\ owner' = IF Alive /\ owner = t THEN NoThread ELSE owner
  /\ Goto(t, "idle")
  /\ UNCHANGED <<value, registered, held, local, history>>

(* The runtime drops its adapter. *)
Unregister ==
  /\ registered /\ registered' = FALSE
  /\ UNCHANGED <<value, owner, pc, held, local, history>>

SetStep(t) ==
  \/ TakeAdapter(t) \/ Lock(t) \/ Compare(t) \/ Assign(t) \/ Unlock(t)
  \/ Result(t) \/ Read(t) \/ Fire(t)
GetStep(t) == GetLock(t) \/ GetValue(t) \/ GetUnlock(t)

Next ==
  \/ \E t \in Setters : SetStep(t) \/ \E v \in Values : Set(t, v)
  \/ \E t \in Getters : Get(t) \/ GetStep(t)
  \/ Unregister

Spec == Init /\ [][Next]_vars

(* Threads that are in a call go on; nobody has to make one. *)
FairSpec ==
  /\ Spec
  /\ \A t \in Setters : WF_vars(SetStep(t))
  /\ \A t \in Getters : WF_vars(GetStep(t))

-----------------------------------------------------------------------------
Writing(t) == pc[t] \in {"compare", "assign", "unlock"}

(* No two threads are comparing or assigning at once, as long as one of them  *)
(* found the adapter: a thread that holds it keeps the weak pointer alive for *)
(* the others, so that none goes on without the mutex.                        *)
WritersExclusive ==
  \A t, u \in Setters : t # u /\ Writing(t) /\ Writing(u) => {t, u} \cap held = {}

(* No change is lost: when no setter is under way any more, a notification    *)
(* was sent that was read after the attribute last changed, however the reads *)
(* for the notifications and the other threads' assignments fell.             *)
ChangeAnnounced ==
  registered /\ (\A t \in Setters : At(t, "idle")) => announced

(* A get request is never answered with a half-written value while the        *)
(* service is registered.                                                     *)
GetterSeesWhole ==
  \A t \in Getters : registered /\ At(t, "getUnlock") => got[t] # Torn

(* Refinement: assignments that find a difference happen at once, between    *)
(* lock and unlock, and owe a notification until it is sent.  What happens   *)
(* after the service is gone is hidden.                                      *)
Owes(t) == (changed[t] /\ pc[t] \in {"unlock", "result"}) \/ pc[t] \in {"read", "fire"}

Contract == INSTANCE AttributeContract WITH
  attribute <- IF registered THEN value ELSE Initial,
  owing <- {t \in Setters : registered /\ Owes(t)},
  fresh <- ~registered \/ announced,
  open <- registered

(* However the setters' steps interleave, and although the value is read     *)
(* again without the mutex, whoever changed it notifies, nobody else does,   *)
(* and the last one to do so leaves no change unannounced.                   *)
ImplementsContract == Contract!Spec

(* Every call returns, also of a thread that waits for the mutex while the    *)
(* service is unregistered.                                                   *)
CallsReturn == \A t \in Threads : ~At(t, "idle") ~> At(t, "idle")

(* The threads are never all stuck: when any is in a call, one of them is not  *)
(* waiting for the mutex, or waits for one that is free.  The mutex that a     *)
(* getter leaves locked, as it finds no adapter to unlock, is one that nobody  *)
(* waits for or will ever find again.                                          *)
Waits(t) == pc[t] \in {"lock", "getLock"}
CallsNeverStuck ==
  (\E t \in Threads : ~At(t, "idle")) =>
    \E t \in Threads : ~At(t, "idle") /\ (Waits(t) => owner = NoThread)
=============================================================================
