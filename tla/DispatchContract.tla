--------------------------- MODULE DispatchContract ---------------------------
(***************************************************************************)
(* What the library and the tests rely on when they hand objects, sources, *)
(* watches and timeouts, to one of the main loops: the life of an object   *)
(* from its registration to its deletion, and which dispatch() calls the   *)
(* loop may still make on the way.                                         *)
(*                                                                         *)
(* One object at a time is dispatched, and a dispatch() is decided on only *)
(* while the object is registered: after its unregistration at most the    *)
(* one is still to come that had been decided on.  An object is deleted    *)
(* when it is unregistered and not held, or with the loop.                 *)
(***************************************************************************)
CONSTANT Objects  \* whatever may be registered, once each

VARIABLES
  life,    \* "new", "registered", "unregistered" or "deleted"
  held,    \* the object the loop is at, if any
  decided, \* the same, if a dispatch() is decided on or under way
  open     \* the loop has not been destroyed

contract == <<life, held, decided, open>>

Init ==
  /\ life = [o \in Objects |-> "new"] /\ held = {} /\ decided = {} /\ open = TRUE

Become(S, stage) == life' = [o \in Objects |-> IF o \in S THEN stage ELSE life[o]]

Register(o) ==
  /\ open /\ life[o] = "new" /\ Become({o}, "registered")
  /\ UNCHANGED <<held, decided, open>>

Unregister(o) ==
  /\ open /\ life[o] = "registered" /\ Become({o}, "unregistered")
  /\ UNCHANGED <<held, decided, open>>

(* The loop turns to the next object; a first dispatch() may be decided on. *)
Hold(o) ==
  /\ open /\ held = {} /\ life[o] = "registered"
  /\ held' = {o} /\ decided' \in {{}, {o}}
  /\ UNCHANGED <<life, open>>

Decide ==
  /\ decided = {} /\ \A o \in held : life[o] = "registered"
  /\ decided' = held
  /\ UNCHANGED <<life, held, open>>

(* No dispatch() is under way any more; the object may be kept for another.  *)
Finish ==
  /\ decided' = {} /\ held' \in {{}, held}
  /\ UNCHANGED <<life, open>>

Delete(S) ==
  /\ \A o \in S : life[o] = "unregistered" /\ o \notin held
  /\ Become(S, "deleted")
  /\ UNCHANGED <<held, decided, open>>

(* The loop is destroyed, and with it what it still has. *)
Close ==
  /\ open /\ held = {} /\ decided = {} /\ open' = FALSE
  /\ Become({o \in Objects : life[o] # "new"}, "deleted")
  /\ UNCHANGED <<held, decided>>

Next ==
  \/ \E o \in Objects : Register(o) \/ Unregister(o) \/ Hold(o)
  \/ Decide \/ Finish \/ (\E S \in SUBSET Objects : Delete(S)) \/ Close

Spec == Init /\ [][Next]_contract
===============================================================================
