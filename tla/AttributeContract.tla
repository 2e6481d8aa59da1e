--------------------------- MODULE AttributeContract ---------------------------
(***************************************************************************)
(* What a stub promises about an observable attribute for as long as its   *)
(* service is registered, whatever threads set it: it goes from one valid  *)
(* value to the next at once, never through a mixture; a call that changes *)
(* it, and no other, owes a notification; and with the last notification   *)
(* that is owed the value has been read and announced since it changed.    *)
(*                                                                         *)
(* Once the service is unregistered nothing is promised any more.          *)
(***************************************************************************)
CONSTANTS
  Setters,         \* threads that set the attribute
  Valid, Initial   \* values that may be set, and the first one

VARIABLES
  attribute, \* its value
  owing,     \* the threads that have changed it and have yet to notify
  fresh,     \* the value has been announced since it changed
  open       \* the service is registered

contract == <<attribute, owing, fresh, open>>

Init == attribute = Initial /\ owing = {} /\ fresh = TRUE /\ open = TRUE

Change(t, v) ==
  /\ open /\ t \notin owing /\ v # attribute
  /\ attribute' = v /\ owing' = owing \cup {t} /\ fresh' = FALSE
  /\ UNCHANGED open

(* What is announced may be a value that another thread has set meanwhile,   *)
(* or one that has been announced before; the last notification is fresh.    *)
Notify(t) ==
  /\ open /\ t \in owing /\ owing' = owing \ {t}
  /\ fresh' \in {fresh, TRUE} /\ (owing' = {} => fresh')
  /\ UNCHANGED <<attribute, open>>

Close ==
  /\ open /\ open' = FALSE
  /\ attribute' = Initial /\ owing' = {} /\ fresh' = TRUE

Next == (\E t \in Setters : Notify(t) \/ \E v \in Valid : Change(t, v)) \/ Close

Spec == Init /\ [][Next]_contract
===============================================================================
