------------------------- MODULE StubAttributeProofs -------------------------
(* Proofs about StubAttribute, for any number of threads, values and calls. *)
EXTENDS StubAttribute, TLAPS

(* A thread that waits for the mutex holds the adapter. *)
WaitersHold == \A t \in Threads : pc[t] \in {"lock", "getLock"} => t \in held

(* A setter that found the adapter owns the mutex while it compares and assigns. *)
WritersOwn == \A t \in Setters : Writing(t) /\ t \in held => owner = t

(* A setter does without the mutex only when the adapter is gone for good. *)
UnguardedWhenGone ==
  \A t \in Setters : Writing(t) /\ t \notin held => ~registered /\ held = {}

Guarded == WaitersHold /\ WritersOwn /\ UnguardedWhenGone

-----------------------------------------------------------------------------
(* Type correctness, and no more: a readable value may be torn, and whether  *)
(* the value validates is said of settled values by ImplementsContract.      *)
THEOREM StubType == Spec => []TypeOK
<1>1. Init => TypeOK
  BY StubAttributeAssumption
     DEF Init, TypeOK, Readable, Settable, Threads, Places
<1>2. TypeOK /\ [Next]_vars => TypeOK'
  <2> SUFFICES ASSUME TypeOK, [Next]_vars PROVE TypeOK'
    OBVIOUS
  <2> USE StubAttributeAssumption
      DEF TypeOK, Readable, Settable, Threads, Places, At, Goto, local, history, history
  <2>1. CASE UNCHANGED vars
    BY <2>1 DEF vars
  <2>2. ASSUME NEW t \in Setters, NEW v \in Values, Set(t, v) PROVE TypeOK'
    BY <2>2 DEF Set
  <2>3. ASSUME NEW t \in Setters, SetStep(t) PROVE TypeOK'
    <3>1. CASE TakeAdapter(t)  BY <3>1 DEF TakeAdapter
    <3>2. CASE Lock(t)  BY <3>2 DEF Lock
    <3>3. CASE Compare(t)
      <4> PICK x \in Readings(t) : changed' = [changed EXCEPT ![t] = x # arg[t]]
        BY <3>3 DEF Compare
      <4>1. (x # arg[t]) \in BOOLEAN
        OBVIOUS
      <4>2. changed' \in [Setters -> BOOLEAN]
        BY <4>1, Zenon
      <4> QED  BY <3>3, <4>2 DEF Compare
    <3>4. CASE Assign(t)
      <4>1. announced' \in BOOLEAN
        BY <3>4, Zenon DEF Assign, Changed
      <4>2. value' \in Readable
        BY <3>4 DEF Assign, Written
      <4> QED  BY <3>4, <4>1, <4>2 DEF Assign, Changed
    <3>5. CASE Unlock(t)  BY <3>5 DEF Unlock
    <3>6. CASE Result(t)  BY <3>6 DEF Result
    <3>7. CASE Read(t)  BY <3>7 DEF Read
    <3>8. CASE Fire(t)
      <4>1. announced' \in BOOLEAN
        BY <3>8, Zenon DEF Fire
      <4> QED  BY <3>8, <4>1 DEF Fire
    <3> QED
      BY <2>3, <3>1, <3>2, <3>3, <3>4, <3>5, <3>6, <3>7, <3>8 DEF SetStep
  <2>4. ASSUME NEW t \in Getters, Get(t) PROVE TypeOK'
    BY <2>4 DEF Get
  <2>5. ASSUME NEW t \in Getters, GetStep(t) PROVE TypeOK'
    <3>1. CASE GetLock(t)  BY <3>1 DEF GetLock
    <3>2. CASE GetValue(t)  BY <3>2 DEF GetValue, Readings
    <3>3. CASE GetUnlock(t)  BY <3>3 DEF GetUnlock
    <3> QED  BY <2>5, <3>1, <3>2, <3>3 DEF GetStep
  <2>6. CASE Unregister
    BY <2>6 DEF Unregister
  <2> QED
    BY <2>1, <2>2, <2>3, <2>4, <2>5, <2>6 DEF Next
<1> QED  BY <1>1, <1>2, PTL DEF Spec

-----------------------------------------------------------------------------
(* The mutex that lives in the adapter does its work: the pieces of Guarded. *)
LEMMA GuardedStep ==
  ASSUME TypeOK, Guarded, [Next]_vars PROVE Guarded'
PROOF
<1> USE StubAttributeAssumption
    DEF TypeOK, Threads, At, Goto, local, history, Writing, Guarded, WaitersHold,
        WritersOwn, UnguardedWhenGone, Alive
<1>1. CASE UNCHANGED vars
  BY <1>1 DEF vars
<1>2. ASSUME NEW t \in Setters, NEW v \in Values, Set(t, v) PROVE Guarded'
  BY <1>2 DEF Set
<1>3. ASSUME NEW t \in Setters, SetStep(t) PROVE Guarded'
  <2>1. CASE TakeAdapter(t)  BY <2>1 DEF TakeAdapter
  <2>2. CASE Lock(t)  BY <2>2 DEF Lock
  <2>3. CASE Compare(t)  BY <2>3 DEF Compare
  <2>4. CASE Assign(t)  BY <2>4 DEF Assign
  <2>5. CASE Unlock(t)  BY <2>5 DEF Unlock
  <2>6. CASE Result(t)  BY <2>6 DEF Result
  <2>7. CASE Read(t)  BY <2>7 DEF Read
  <2>8. CASE Fire(t)  BY <2>8 DEF Fire
  <2> QED
    BY <1>3, <2>1, <2>2, <2>3, <2>4, <2>5, <2>6, <2>7, <2>8 DEF SetStep
<1>4. ASSUME NEW t \in Getters, Get(t) PROVE Guarded'
  BY <1>4 DEF Get
<1>5. ASSUME NEW t \in Getters, GetStep(t) PROVE Guarded'
  <2>1. CASE GetLock(t)  BY <2>1 DEF GetLock
  <2>2. CASE GetValue(t)  BY <2>2 DEF GetValue
  <2>3. CASE GetUnlock(t)  BY <2>3 DEF GetUnlock
  <2> QED  BY <1>5, <2>1, <2>2, <2>3 DEF GetStep
<1>6. CASE Unregister
  BY <1>6 DEF Unregister
<1> QED
  BY <1>1, <1>2, <1>3, <1>4, <1>5, <1>6 DEF Next

LEMMA GuardedExclusive ==
  ASSUME Guarded PROVE WritersExclusive
BY DEF Guarded, WritersOwn, UnguardedWhenGone, WritersExclusive

LEMMA GuardedAlways == Spec => []Guarded
<1>1. Init => Guarded
  BY DEF Init, Guarded, WaitersHold, WritersOwn, UnguardedWhenGone, Writing, Threads
<1>2. TypeOK /\ Guarded /\ [Next]_vars => Guarded'
  BY GuardedStep
<1> QED  BY <1>1, <1>2, StubType, PTL DEF Spec

(* Two threads assign at once only after the service and every holder of its *)
(* adapter are gone.                                                         *)
THEOREM StubWritersExclusive == Spec => []WritersExclusive
<1>1. Guarded => WritersExclusive
  BY GuardedExclusive
<1> QED  BY <1>1, GuardedAlways, PTL

-----------------------------------------------------------------------------
(* While the service is registered nobody else is at its assignment when a *)
(* setter is between comparing and unlocking, or a getter is reading.      *)
LEMMA NobodyElseAssigns ==
  ASSUME Guarded, registered, NEW t \in Setters, Writing(t) PROVE ~Racing(t)
BY GuardedExclusive
   DEF Guarded, UnguardedWhenGone, WritersExclusive, Racing, At, Writing

(* While the service is registered a getter owns the mutex as it reads, and  *)
(* neither the attribute nor the answer is a mixture of two values.          *)
WholeReads ==
  registered =>
    /\ value \in Settable
    /\ \A t \in Getters : At(t, "get") => owner = t
    /\ \A t \in Getters : At(t, "getUnlock") => got[t] \in Settable

LEMMA WholeReadsStep ==
  ASSUME TypeOK, Guarded, WholeReads, [Next]_vars PROVE WholeReads'
PROOF
<1> USE StubAttributeAssumption
    DEF TypeOK, Threads, At, Goto, local, history, WholeReads
<1>1. CASE UNCHANGED vars
  BY <1>1 DEF vars
<1>2. ASSUME NEW t \in Setters, NEW v \in Values, Set(t, v) PROVE WholeReads'
  BY <1>2 DEF Set
<1>3. ASSUME NEW t \in Setters, SetStep(t) PROVE WholeReads'
  <2>1. CASE TakeAdapter(t)  BY <2>1 DEF TakeAdapter
  <2>2. CASE Lock(t)  BY <2>2 DEF Lock
  <2>3. CASE Compare(t)  BY <2>3 DEF Compare
  <2>4. CASE Assign(t)
    <3> SUFFICES ASSUME registered PROVE WholeReads'
      BY <2>4 DEF Assign
    <3>1. ~Racing(t)
      BY <2>4, NobodyElseAssigns DEF Assign, Writing
    <3>2. value' \in Settable
      BY <2>4, <3>1 DEF Assign, Written
    <3> QED  BY <2>4, <3>2 DEF Assign
  <2>5. CASE Unlock(t)
    BY <2>5 DEF Unlock, Guarded, WritersOwn, Writing
  <2>6. CASE Result(t)  BY <2>6 DEF Result
  <2>7. CASE Read(t)  BY <2>7 DEF Read
  <2>8. CASE Fire(t)  BY <2>8 DEF Fire
  <2> QED
    BY <1>3, <2>1, <2>2, <2>3, <2>4, <2>5, <2>6, <2>7, <2>8 DEF SetStep
<1>4. ASSUME NEW t \in Getters, Get(t) PROVE WholeReads'
  BY <1>4 DEF Get, Alive
<1>5. ASSUME NEW t \in Getters, GetStep(t) PROVE WholeReads'
  <2>1. CASE GetLock(t)  BY <2>1 DEF GetLock
  <2>2. CASE GetValue(t)
    <3> SUFFICES ASSUME registered PROVE WholeReads'
      BY <2>2 DEF GetValue
    <3>1. ~Racing(t)
      BY <2>2
         DEF GetValue, Racing, Guarded, WritersOwn, UnguardedWhenGone, Writing
    <3>2. got' = [got EXCEPT ![t] = value]
      BY <2>2, <3>1 DEF GetValue, Readings
    <3> QED  BY <2>2, <3>2 DEF GetValue
  <2>3. CASE GetUnlock(t)  BY <2>3 DEF GetUnlock
  <2> QED  BY <1>5, <2>1, <2>2, <2>3 DEF GetStep
<1>6. CASE Unregister
  BY <1>6 DEF Unregister
<1> QED
  BY <1>1, <1>2, <1>3, <1>4, <1>5, <1>6 DEF Next

LEMMA WholeReadsAlways == Spec => []WholeReads
<1>1. Init => WholeReads
  BY DEF Init, WholeReads, At, Threads, Settable
<1>2. TypeOK /\ Guarded /\ WholeReads /\ [Next]_vars => WholeReads'
  BY WholeReadsStep
<1> QED  BY <1>1, <1>2, StubType, GuardedAlways, PTL DEF Spec

(* No get request is answered with a half-written value while the service is *)
(* registered, whatever the type of the attribute.                           *)
THEOREM StubGetterSeesWhole == Spec => []GetterSeesWhole
<1>1. WholeReads => GetterSeesWhole
  BY StubAttributeAssumption DEF WholeReads, GetterSeesWhole, Settable
<1> QED  BY <1>1, WholeReadsAlways, PTL

-----------------------------------------------------------------------------
(* A setter that found the value it was to set leaves it as it is. *)
SameLeftAlone ==
  registered => \A t \in Setters :
    At(t, "assign") /\ ~changed[t] => value = arg[t]

(* A change that was not notified yet will be, by a setter that has not read *)
(* the attribute for its notification or has read it since.                  *)
NotificationPending ==
  registered /\ ~announced => \E t \in Setters :
    \/ changed[t] /\ pc[t] \in {"unlock", "result", "read"}
    \/ At(t, "fire") /\ t \in current

Announcing == SameLeftAlone /\ NotificationPending

LEMMA AnnouncingStep ==
  ASSUME TypeOK, Guarded, WholeReads, Announcing, [Next]_vars PROVE Announcing'
PROOF
<1> USE StubAttributeAssumption
    DEF TypeOK, Threads, At, Goto, local, history, Announcing, SameLeftAlone,
        NotificationPending
<1>1. CASE UNCHANGED vars
  BY <1>1 DEF vars
<1>2. ASSUME NEW t \in Setters, NEW v \in Values, Set(t, v) PROVE Announcing'
  BY <1>2 DEF Set
<1>3. ASSUME NEW t \in Setters, SetStep(t) PROVE Announcing'
  <2>1. CASE TakeAdapter(t)  BY <2>1 DEF TakeAdapter
  <2>2. CASE Lock(t)  BY <2>2 DEF Lock
  <2>3. CASE Compare(t)
    <3> SUFFICES ASSUME registered PROVE Announcing'
      BY <2>3 DEF Compare
    <3>1. ~Racing(t)
      BY <2>3, NobodyElseAssigns DEF Compare, Writing
    <3>2. changed' = [changed EXCEPT ![t] = value # arg[t]]
      BY <2>3, <3>1 DEF Compare, Readings
    <3>3. changed'[t] <=> value # arg[t]
      BY <3>2, Zenon
    <3>4. \A s \in Setters \ {t} : changed'[s] = changed[s]
      BY <3>2, Zenon
    <3> QED  BY <2>3, <3>3, <3>4 DEF Compare
  <2>4. CASE Assign(t)
    <3> SUFFICES ASSUME registered PROVE Announcing'
      BY <2>4 DEF Assign
    <3>1. ~Racing(t)
      BY <2>4, NobodyElseAssigns DEF Assign, Writing
    <3>2. \A s \in Setters : pc'[s] # "assign"
      BY <2>4, <3>1 DEF Assign, Racing
    <3>3. SameLeftAlone'
      BY <3>2
    <3>4. value' = arg[t]
      BY <2>4, <3>1 DEF Assign, Written, WholeReads, Settable
    <3>5. CASE changed[t]
      BY <2>4, <3>3, <3>5 DEF Assign
    <3>6. CASE ~changed[t]
      <4>1. value' = value
        BY <2>4, <3>4, <3>6 DEF Assign
      <4>2. (announced' <=> announced) /\ current' = current
        BY <2>4, <4>1, Zenon DEF Assign, Changed
      <4> QED  BY <2>4, <3>3, <3>6, <4>2 DEF Assign
    <3> QED  BY <3>5, <3>6
  <2>5. CASE Unlock(t)  BY <2>5 DEF Unlock
  <2>6. CASE Result(t)  BY <2>6 DEF Result
  <2>7. CASE Read(t)  BY <2>7 DEF Read
  <2>8. CASE Fire(t)
    <3>1. announced' <=> announced \/ (Alive /\ t \in current)
      BY <2>8, Zenon DEF Fire
    <3> QED  BY <2>8, <3>1 DEF Fire, Alive
  <2> QED
    BY <1>3, <2>1, <2>2, <2>3, <2>4, <2>5, <2>6, <2>7, <2>8 DEF SetStep
<1>4. ASSUME NEW t \in Getters, Get(t) PROVE Announcing'
  BY <1>4 DEF Get
<1>5. ASSUME NEW t \in Getters, GetStep(t) PROVE Announcing'
  <2>1. CASE GetLock(t)  BY <2>1 DEF GetLock
  <2>2. CASE GetValue(t)  BY <2>2 DEF GetValue
  <2>3. CASE GetUnlock(t)  BY <2>3 DEF GetUnlock
  <2> QED  BY <1>5, <2>1, <2>2, <2>3 DEF GetStep
<1>6. CASE Unregister
  BY <1>6 DEF Unregister
<1> QED
  BY <1>1, <1>2, <1>3, <1>4, <1>5, <1>6 DEF Next

(* When no setter is under way a notification was sent that was read after   *)
(* the attribute last changed, for attributes of any type.                   *)
THEOREM StubChangeAnnounced == Spec => []ChangeAnnounced
<1>1. Init => Announcing
  BY DEF Init, Announcing, SameLeftAlone, NotificationPending, At, Threads
<1>2. TypeOK /\ Guarded /\ WholeReads /\ Announcing /\ [Next]_vars => Announcing'
  BY AnnouncingStep
<1>3. Announcing => ChangeAnnounced
  BY DEF Announcing, NotificationPending, ChangeAnnounced, At
<1> QED  BY <1>1, <1>2, <1>3, StubType, GuardedAlways, WholeReadsAlways, PTL DEF Spec

-----------------------------------------------------------------------------
(* What a setter is going to assign is valid, and it knows of the difference. *)
DifferenceKnown ==
  /\ \A t \in Setters : pc[t] \in {"adapter", "lock", "compare", "assign"} => arg[t] \in Valid
  /\ registered => \A t \in Setters : At(t, "assign") => (changed[t] <=> value # arg[t])

LEMMA DifferenceKnownStep ==
  ASSUME TypeOK, Guarded, DifferenceKnown, [Next]_vars PROVE DifferenceKnown'
PROOF
<1> USE StubAttributeAssumption
    DEF TypeOK, Threads, At, Goto, local, history, DifferenceKnown
<1>1. CASE UNCHANGED vars
  BY <1>1 DEF vars
<1>2. ASSUME NEW t \in Setters, NEW v \in Values, Set(t, v) PROVE DifferenceKnown'
  BY <1>2 DEF Set
<1>3. ASSUME NEW t \in Setters, SetStep(t) PROVE DifferenceKnown'
  <2>1. CASE TakeAdapter(t)  BY <2>1 DEF TakeAdapter
  <2>2. CASE Lock(t)  BY <2>2 DEF Lock
  <2>3. CASE Compare(t)
    <3>1. \A s \in Setters : pc'[s] \in {"adapter", "lock", "compare", "assign"}
                               => arg'[s] \in Valid
      BY <2>3 DEF Compare
    <3>2. ASSUME registered
          PROVE  changed' = [changed EXCEPT ![t] = value # arg[t]]
      <4>1. ~Racing(t)  BY <2>3, <3>2, NobodyElseAssigns DEF Compare, Writing
      <4> QED  BY <2>3, <4>1 DEF Compare, Readings
    <3>3. ASSUME registered
          PROVE  /\ changed'[t] <=> value # arg[t]
                 /\ \A s \in Setters \ {t} : changed'[s] = changed[s]
      BY <3>2, <3>3, Zenon
    <3> QED  BY <2>3, <3>1, <3>3 DEF Compare
  <2>4. CASE Assign(t)
    <3>1. ASSUME registered  PROVE \A s \in Setters : pc'[s] # "assign"
      <4>1. ~Racing(t)  BY <2>4, <3>1, NobodyElseAssigns DEF Assign, Writing
      <4> QED  BY <2>4, <4>1 DEF Assign, Racing
    <3> QED  BY <2>4, <3>1 DEF Assign
  <2>5. CASE Unlock(t)  BY <2>5 DEF Unlock
  <2>6. CASE Result(t)  BY <2>6 DEF Result
  <2>7. CASE Read(t)  BY <2>7 DEF Read
  <2>8. CASE Fire(t)  BY <2>8 DEF Fire
  <2> QED
    BY <1>3, <2>1, <2>2, <2>3, <2>4, <2>5, <2>6, <2>7, <2>8 DEF SetStep
<1>4. ASSUME NEW t \in Getters, Get(t) PROVE DifferenceKnown'
  BY <1>4 DEF Get
<1>5. ASSUME NEW t \in Getters, GetStep(t) PROVE DifferenceKnown'
  <2>1. CASE GetLock(t)  BY <2>1 DEF GetLock
  <2>2. CASE GetValue(t)  BY <2>2 DEF GetValue
  <2>3. CASE GetUnlock(t)  BY <2>3 DEF GetUnlock
  <2> QED  BY <1>5, <2>1, <2>2, <2>3 DEF GetStep
<1>6. CASE Unregister
  BY <1>6 DEF Unregister
<1> QED
  BY <1>1, <1>2, <1>3, <1>4, <1>5, <1>6 DEF Next

(* A step after which the same threads owe a notification of the same value   *)
(* shows the contract nothing, nor does any after the service is gone.        *)
LEMMA Unnoticed ==
  ASSUME registered' = registered,
         registered => /\ value' = value /\ (announced' <=> announced)
                       /\ \A t \in Setters : Owes(t)' <=> Owes(t)
  PROVE  UNCHANGED Contract!contract
<1>1. (IF registered THEN value ELSE Initial)' = IF registered THEN value ELSE Initial
  OBVIOUS
<1>2. {t \in Setters : registered /\ Owes(t)}' = {t \in Setters : registered /\ Owes(t)}
  <2>1. \A t \in Setters : (registered /\ Owes(t))' <=> registered /\ Owes(t)  OBVIOUS
  <2> QED  BY <2>1
<1>3. (~registered \/ announced)' <=> ~registered \/ announced
  OBVIOUS
<1> QED  BY <1>1, <1>2, <1>3 DEF Contract!contract

(* The end of an assignment under the mutex. *)
LEMMA AssignChanges ==
  ASSUME TypeOK, Guarded, WholeReads, DifferenceKnown, registered,
         NEW t \in Setters, Assign(t)
  PROVE  Contract!Next \/ UNCHANGED Contract!contract
<1> USE StubAttributeAssumption DEF TypeOK, Threads, At, Goto, local, history
<1>1. registered' = TRUE /\ changed' = changed /\ At(t, "assign")
      /\ pc' = [pc EXCEPT ![t] = "unlock"]
  BY DEF Assign
<1>2. value' = arg[t] /\ arg[t] \in Valid
  <2>1. ~Racing(t)  BY <1>1, NobodyElseAssigns DEF Writing
  <2>2. value \in Settable  BY DEF WholeReads
  <2> QED  BY <1>1, <2>1, <2>2 DEF Assign, Written, Settable, DifferenceKnown
<1>3. changed[t] <=> value # arg[t]  BY <1>1 DEF DifferenceKnown
<1>4. ~Owes(t) /\ (Owes(t)' <=> changed[t])
      /\ \A u \in Setters \ {t} : Owes(u)' <=> Owes(u)
  BY <1>1 DEF Owes
<1>5. CASE changed[t]
  <2>1. value' # value  BY <1>2, <1>3, <1>5
  <2>2. ~announced'  BY <2>1, Zenon DEF Assign, Changed
  <2>3. {u \in Setters : registered /\ Owes(u)}' =
          {u \in Setters : registered /\ Owes(u)} \cup {t}
    BY <1>1, <1>4, <1>5
  <2>4. (~registered \/ announced)' = FALSE  BY <1>1, <2>2
  <2>5. Contract!Change(t, arg[t])
    BY <1>1, <1>2, <1>4, <2>1, <2>3, <2>4 DEF Contract!Change
  <2> QED  BY <1>2, <2>5 DEF Contract!Next
<1>6. CASE ~changed[t]
  <2>1. value' = value  BY <1>2, <1>3, <1>6
  <2>2. announced' <=> announced  BY <2>1, Zenon DEF Assign, Changed
  <2> QED  BY <1>1, <1>4, <1>6, <2>1, <2>2, Unnoticed
<1> QED  BY <1>5, <1>6

(* The notification: Announcing says that the last one owed is fresh. *)
LEMMA FireNotifies ==
  ASSUME TypeOK, Announcing', registered, NEW t \in Setters, Fire(t)
  PROVE  Contract!Next
<1> USE StubAttributeAssumption DEF TypeOK, Threads, At, Goto, local, history
<1>1. /\ registered' = TRUE /\ value' = value /\ changed' = changed /\ At(t, "fire")
      /\ pc' = [pc EXCEPT ![t] = "idle"]
  BY DEF Fire
<1>2. Owes(t) /\ ~Owes(t)' /\ \A u \in Setters \ {t} : Owes(u)' <=> Owes(u)
  BY <1>1 DEF Owes
<1>3. {u \in Setters : registered /\ Owes(u)}' = {u \in Setters : registered /\ Owes(u)} \ {t}
  BY <1>1, <1>2
<1>4. (announced => announced') /\ announced' \in BOOLEAN
  BY Zenon DEF Fire
<1>5. (~registered \/ announced)' \in {~registered \/ announced, TRUE}
  BY <1>1, <1>4
<1>6. ASSUME {u \in Setters : registered /\ Owes(u)}' = {}  PROVE announced'
  <2>1. \A u \in Setters : ~Owes(u)'  BY <1>1, <1>6
  <2> QED  BY <1>1, <2>1 DEF Announcing, NotificationPending, Owes
<1>7. Contract!Notify(t)
  BY <1>1, <1>2, <1>3, <1>5, <1>6 DEF Contract!Notify
<1> QED  BY <1>7 DEF Contract!Next

(* Every step of a registered stub. *)
LEMMA RegisteredStep ==
  ASSUME TypeOK, Guarded, WholeReads, DifferenceKnown, Announcing', registered, [Next]_vars
  PROVE  Contract!Next \/ UNCHANGED Contract!contract
<1> USE StubAttributeAssumption DEF TypeOK, Threads, At, Goto, local, history
<1>1. ASSUME NEW t \in Setters, NEW v \in Values, Set(t, v)
      PROVE  UNCHANGED Contract!contract
  BY <1>1, Unnoticed DEF Set, Owes
<1>2. ASSUME NEW t \in Setters, SetStep(t)
      PROVE  Contract!Next \/ UNCHANGED Contract!contract
  <2>1. CASE TakeAdapter(t)  BY <2>1, Unnoticed DEF TakeAdapter, Owes
  <2>2. CASE Lock(t)  BY <2>2, Unnoticed DEF Lock, Owes
  <2>3. CASE Compare(t)
    <3>1. \A u \in Setters \ {t} : changed'[u] = changed[u]
      BY <2>3, Zenon DEF Compare
    <3>2. \A u \in Setters : Owes(u)' <=> Owes(u)
      BY <2>3, <3>1 DEF Compare, Owes
    <3> QED  BY <2>3, <3>2, Unnoticed DEF Compare
  <2>4. CASE Assign(t)  BY <2>4, AssignChanges
  <2>5. CASE Unlock(t)  BY <2>5, Unnoticed DEF Unlock, Owes
  <2>6. CASE Result(t)  BY <2>6, Unnoticed DEF Result, Owes
  <2>7. CASE Read(t)  BY <2>7, Unnoticed DEF Read, Owes
  <2>8. CASE Fire(t)  BY <2>8, FireNotifies
  <2> QED
    BY <1>2, <2>1, <2>2, <2>3, <2>4, <2>5, <2>6, <2>7, <2>8 DEF SetStep
<1>3. ASSUME NEW t \in Getters, Get(t) \/ GetStep(t)
      PROVE  UNCHANGED Contract!contract
  <2>1. /\ registered' = registered /\ value' = value /\ announced' = announced
        /\ changed' = changed /\ \A u \in Setters : pc'[u] = pc[u]
    BY <1>3 DEF Get, GetStep, GetLock, GetValue, GetUnlock
  <2> QED  BY <2>1, Unnoticed DEF Owes
<1>4. CASE Unregister
  <2>1. Contract!Close  BY <1>4 DEF Unregister, Contract!Close
  <2> QED  BY <2>1 DEF Contract!Next
<1>5. CASE UNCHANGED vars  BY <1>5, Unnoticed DEF vars, Owes
<1> QED  BY <1>1, <1>2, <1>3, <1>4, <1>5 DEF Next

(* FInterfaceStubGenerator: the setters of a generated stub implement the     *)
(* promise of AttributeContract, for attributes of any type and any threads.  *)
THEOREM StubImplements == Spec => ImplementsContract
<1> DEFINE I == TypeOK /\ Guarded /\ WholeReads /\ DifferenceKnown /\ Announcing
<1>1. Init => I
  <2>1. Init => DifferenceKnown /\ Announcing
    BY DEF Init, DifferenceKnown, Announcing, SameLeftAlone, NotificationPending, At, Threads
  <2>2. Init => WholeReads
    BY DEF Init, WholeReads, At, Threads, Settable
  <2>3. Init => Guarded
    BY DEF Init, Guarded, WaitersHold, WritersOwn, UnguardedWhenGone, Writing, Threads
  <2>4. Init => TypeOK
    BY StubAttributeAssumption DEF Init, TypeOK, Readable, Settable, Threads, Places
  <2> QED  BY <2>1, <2>2, <2>3, <2>4
<1>2. TypeOK /\ Guarded /\ DifferenceKnown /\ [Next]_vars => DifferenceKnown'
  BY DifferenceKnownStep
<1>3. TypeOK /\ Guarded /\ WholeReads /\ Announcing /\ [Next]_vars => Announcing'
  BY AnnouncingStep
<1>4. Spec => []I
  BY <1>1, <1>2, <1>3, StubType, GuardedAlways, WholeReadsAlways, PTL DEF Spec
<1>5. Init => Contract!Init
  BY DEF Init, Contract!Init, Owes, Threads
<1>6. I /\ I' /\ [Next]_vars => [Contract!Next]_Contract!contract
  <2> SUFFICES ASSUME I, I', [Next]_vars
               PROVE  Contract!Next \/ UNCHANGED Contract!contract
    OBVIOUS
  <2>1. CASE registered  BY <2>1, RegisteredStep
  <2>2. CASE ~registered
    <3>1. registered' = registered
      BY <2>2 DEF Next, SetStep, GetStep, Set, TakeAdapter, Lock, Compare, Assign, Unlock,
         Result, Read, Fire, Get, GetLock, GetValue, GetUnlock, Unregister, vars
    <3> QED  BY <2>2, <3>1, Unnoticed
  <2> QED  BY <2>1, <2>2
<1> QED  BY <1>4, <1>5, <1>6, PTL DEF Spec, ImplementsContract, Contract!Spec

-----------------------------------------------------------------------------
(* A mutex that is locked will be unlocked by a thread that is at work, or     *)
(* the adapter it lives in is gone for good.                                   *)
AtWork(t) == Writing(t) \/ pc[t] \in {"get", "getUnlock"}
MutexComesBack == owner # NoThread => AtWork(owner) \/ ~Alive

LEMMA MutexComesBackStep ==
  ASSUME TypeOK, Guarded, MutexComesBack, [Next]_vars PROVE MutexComesBack'
PROOF
<1> USE StubAttributeAssumption
    DEF TypeOK, Threads, At, Goto, local, history, MutexComesBack, AtWork, Writing, Alive
<1>1. CASE UNCHANGED vars
  BY <1>1 DEF vars
<1>2. ASSUME NEW t \in Setters, NEW v \in Values, Set(t, v) PROVE MutexComesBack'
  BY <1>2 DEF Set
<1>3. ASSUME NEW t \in Setters, SetStep(t) PROVE MutexComesBack'
  <2>1. CASE TakeAdapter(t)  BY <2>1 DEF TakeAdapter
  <2>2. CASE Lock(t)  BY <2>2 DEF Lock
  <2>3. CASE Compare(t)  BY <2>3 DEF Compare
  <2>4. CASE Assign(t)  BY <2>4 DEF Assign
  <2>5. CASE Unlock(t)
    BY <2>5 DEF Unlock, Guarded, UnguardedWhenGone
  <2>6. CASE Result(t)  BY <2>6 DEF Result
  <2>7. CASE Read(t)  BY <2>7 DEF Read
  <2>8. CASE Fire(t)  BY <2>8 DEF Fire
  <2> QED
    BY <1>3, <2>1, <2>2, <2>3, <2>4, <2>5, <2>6, <2>7, <2>8 DEF SetStep
<1>4. ASSUME NEW t \in Getters, Get(t) PROVE MutexComesBack'
  BY <1>4 DEF Get
<1>5. ASSUME NEW t \in Getters, GetStep(t) PROVE MutexComesBack'
  <2>1. CASE GetLock(t)  BY <2>1 DEF GetLock
  <2>2. CASE GetValue(t)  BY <2>2 DEF GetValue
  <2>3. CASE GetUnlock(t)  BY <2>3 DEF GetUnlock
  <2> QED  BY <1>5, <2>1, <2>2, <2>3 DEF GetStep
<1>6. CASE Unregister
  BY <1>6 DEF Unregister
<1> QED
  BY <1>1, <1>2, <1>3, <1>4, <1>5, <1>6 DEF Next

(* No mutex stays locked that a thread waits for, so that the calls are never *)
(* all stuck, however many there are and whenever the service is unregistered.*)
THEOREM StubNeverStuck == Spec => []CallsNeverStuck
<1>1. Init => MutexComesBack
  BY DEF Init, MutexComesBack
<1>2. TypeOK /\ Guarded /\ MutexComesBack /\ [Next]_vars => MutexComesBack'
  BY MutexComesBackStep
<1>3. TypeOK /\ Guarded /\ MutexComesBack => CallsNeverStuck
  <2> SUFFICES ASSUME TypeOK, Guarded, MutexComesBack,
                      NEW t \in Threads, ~At(t, "idle")
               PROVE  \E u \in Threads : ~At(u, "idle") /\ (Waits(u) => owner = NoThread)
    BY DEF CallsNeverStuck
  <2>1. CASE ~Waits(t) \/ owner = NoThread
    BY <2>1
  <2>2. CASE Waits(t) /\ owner # NoThread
    <3>1. Alive  BY <2>2 DEF Guarded, WaitersHold, Waits, Alive
    <3>2. owner \in Threads /\ AtWork(owner)
      BY <2>2, <3>1 DEF TypeOK, MutexComesBack
    <3>3. ~At(owner, "idle") /\ ~Waits(owner)
      BY <3>2 DEF AtWork, Writing, At, Waits
    <3> QED  BY <3>2, <3>3
  <2> QED  BY <2>1, <2>2
<1> QED  BY <1>1, <1>2, <1>3, StubType, GuardedAlways, PTL DEF Spec
=============================================================================
