--------------------------------- MODULE TestBed ---------------------------------
(***************************************************************************)
(* The verification tests at work: a test's own thread, the threads it     *)
(* starts, and one dispatching thread per connection, which runs callbacks *)
(* and the methods of stubs.  The scripts are translated from the tests;   *)
(* the runtime underneath, CommonAPI with a binding, is not part of the    *)
(* repository and is modelled from what the tests use of it: registration, *)
(* proxies that become available by a message, subscriptions and calls.    *)
(*                                                                         *)
(* Every connection has a queue of messages, delivered in order.  Time is  *)
(* a relation of durations.  A sleep of 10 or 20 ms may end before any     *)
(* other thread has taken a step, so that what is asserted after it must   *)
(* hold in every schedule.  A loop that adds up to half a second or more   *)
(* gives up only when no thread can go on and no call is to be answered.   *)
(* A sleep of 100 to 250 ms outlasts the calls with a timeout of 100 ms,   *)
(* and these the calls that may take seconds, and nothing else.            *)
(***************************************************************************)
EXTENDS Integers, Sequences, FiniteSets, SequencesExt

CONSTANTS
  Suites,        \* by name: tests, each with its code, the initial values of its variables,
               \* those that have none (unset) and its connections (conns); and routines,
               \* the code of callbacks, threads and methods of stubs
  KnownRaces,    \* by test: the conditions it is known to assert and not to have waited for
  KnownEscapes   \* by test: the variables a callback is known to use after their scope

Statuses == {"UNKNOWN", "SUCCESS", "NOT_AVAILABLE", "REMOTE_ERROR", "SUBSCRIPTION_REFUSED"}

VARIABLES
  test,      \* the test that runs, with its suite
  frames,    \* by thread: the routines it runs, the first one current, each with the
             \* instructions left (code), what it was called with (val), what for (who),
             \* for whom (by), and until it starts, the listener it is for (key)
  store,     \* the variables of the test, its fixture and its stub
  offered,   \* the registered services, each with its interface and its parent
  proxies,   \* the proxies that exist: service, connection, availability
  listeners, \* the subscriptions, in the order they were made
  calls,     \* the asynchronous calls without an answer yet, in their order
  inbox,     \* by connection: the messages still to be delivered
  dead,      \* the variables whose scope was left
  failed     \* the assertions that did not hold, with where they are

vars == <<test, frames, store, offered, proxies, listeners, calls, inbox, dead, failed>>
runtimeVars == <<offered, proxies, listeners, calls, inbox>>

Routines == Suites[test[1]].routines
Running(r, code, val, who, key, by) ==
  [r |-> r, code |-> code, val |-> val, who |-> who, key |-> key, by |-> by, busy |-> FALSE]
Frame(r, val, who, key, by) == Running(r, Routines[r], val, who, key, by)
Caller(thread, call) == [thread |-> thread, call |-> call]
Nobody == Caller("", 0)

Init ==
  /\ test \in UNION {{<<s, name>> : name \in DOMAIN Suites[s].tests} : s \in DOMAIN Suites}
  /\ LET script == Suites[test[1]].tests[test[2]]
     IN  /\ store \in {f @@ script.vars : f \in [script.unset -> Statuses]}
         /\ frames = [t \in {"main"} \cup script.conns |->
              IF t = "main" THEN <<Running("body", script.code, "", "", "", Nobody)>> ELSE <<>>]
         /\ inbox = [c \in script.conns |-> <<>>]
  /\ offered = << >> /\ proxies = << >> /\ listeners = << >> /\ calls = << >>
  /\ dead = {} /\ failed = {}

--------------------------------------------------------------------------------
Top(t) == Head(frames[t])
Current(t) == Head(Top(t).code)
KeyKnown(key) == \E i \in DOMAIN listeners : listeners[i].key = key
WithKey(key) == CHOOSE i \in DOMAIN listeners : listeners[i].key = key
HasProxy(p) == p \in DOMAIN proxies
Children(svc, iface) ==
  {s \in DOMAIN offered : offered[s].parent = svc /\ offered[s].iface = iface}

(* No callback starts for a listener that has been unsubscribed. *)
Cancelled(t) == Top(t).key # "" /\ ~KeyKnown(Top(t).key)

HoldsLiteral(l, t) ==
  CASE l.lit = "is" -> store[l.var] \in l.vals
    [] l.lit = "isnt" -> store[l.var] # l.val
    [] l.lit = "size" -> Len(store[l.var]) = l.count
    [] l.lit = "nonEmpty" -> store[l.var] # <<>>
    [] l.lit = "atLeast" -> store[l.var] >= l.bound
    [] l.lit = "atMost" -> store[l.var] <= l.bound
    [] l.lit = "same" -> store[l.var] = Top(t).val
    [] l.lit = "arg" -> Top(t).val \in l.vals
    [] l.lit = "about" -> Top(t).who \in l.whom
    [] l.lit = "notBelow" -> store[l.var] >= store[l.other]
    [] l.lit = "destroyed" -> ~HasProxy(l.proxy)
    [] l.lit = "exists" -> HasProxy(l.proxy)
    [] l.lit = "avail" -> HasProxy(l.proxy) /\ proxies[l.proxy].up = l.up
    [] l.lit = "offered" -> l.svc \in DOMAIN offered
    [] l.lit = "instances" -> Cardinality(Children(l.svc, l.iface)) = l.count
    [] l.lit = "never" -> FALSE
Holds(cond, t) == \A i \in DOMAIN cond : HoldsLiteral(cond[i], t)

(* What a thread that is not waiting for the others can do. *)
ShortCalls == {i \in DOMAIN calls : calls[i].short}
Busy(t) ==
  \/ frames[t] = <<>> /\ t \in DOMAIN inbox /\ inbox[t] # <<>>
  \/ /\ frames[t] # <<>> /\ ~Top(t).busy
     /\ \/ Cancelled(t)
        \/ CASE Current(t).op = "wait" -> Current(t).limit = "brief" \/ Holds(Current(t).cond, t)
             [] Current(t).op = "join" -> frames[Current(t).thread] = <<>>
             [] Current(t).op = "sleep" -> ShortCalls = {}
             [] OTHER -> TRUE
Quiet == \A t \in DOMAIN frames : ~Busy(t)
PatienceEnds == Quiet /\ calls = << >>

(* The frames of thread t after its current instruction. *)
Moved(fs, n) ==
  IF n >= Len(Head(fs).code) THEN Tail(fs)
  ELSE <<[Head(fs) EXCEPT !.code = SubSeq(@, n + 1, Len(@)), !.key = "", !.busy = FALSE]>> \o Tail(fs)
Advance(t, n) == frames' = [frames EXCEPT ![t] = Moved(@, n)]

(* A failed ASSERT returns from the function it is in: from a callback, or to *)
(* the end of the test's body, or to the end of TearDown().                   *)
Abandoned(t) ==
  IF t # "main" THEN Tail(frames[t])
  ELSE LET code == Top(t).code
           ends == {n \in 2 .. Len(code) : code[n].op \in {"bodyEnd", "end"}}
       IN  Moved(frames[t], Min(ends) - 1)

At(t, op) == frames[t] # <<>> /\ ~Top(t).busy /\ ~Cancelled(t) /\ Current(t).op = op

Send(c, msgs) == inbox' = [inbox EXCEPT ![c] = @ \o msgs]

--------------------------------------------------------------------------------
Cancel(t) ==
  /\ frames[t] # <<>> /\ Cancelled(t) /\ frames' = [frames EXCEPT ![t] = Tail(@)]
  /\ UNCHANGED <<test, store, runtimeVars, dead, failed>>

Assign(t) ==
  /\ \/ At(t, "set") /\ store' = [store EXCEPT ![Current(t).var] = Current(t).val]
     \/ At(t, "setArg") /\ store' = [store EXCEPT ![Current(t).var] = Top(t).val]
     \/ At(t, "push") /\ store' = [store EXCEPT ![Current(t).var] = Append(@, Top(t).val)]
     \/ At(t, "pushReply") /\ store' = [store EXCEPT ![Current(t).var] = Append(@, Top(t).who)]
     \/ /\ At(t, "pushVar")
        /\ store' = [store EXCEPT ![Current(t).var] = Append(@, store[Current(t).from])]
     \/ /\ At(t, "pop")
        /\ store' = [store EXCEPT ![Current(t).var] = Tail(@),
                                  ![Current(t).to] = Head(store[Current(t).var])]
     \/ At(t, "add") /\ store' = [store EXCEPT ![Current(t).var] = @ + Current(t).by]
  /\ Advance(t, 1) /\ UNCHANGED <<test, runtimeVars, dead, failed>>

Branch(t) ==
  /\ At(t, "unless")
  /\ Advance(t, IF Holds(Current(t).cond, t) THEN 1 ELSE 1 + Current(t).skip)
  /\ UNCHANGED <<test, store, runtimeVars, dead, failed>>

Wait(t) ==
  /\ \/ /\ At(t, "wait")
        /\ \/ Holds(Current(t).cond, t)
           \/ Current(t).limit = "brief"
           \/ Current(t).limit = "long" /\ PatienceEnds
     \/ At(t, "sleep") /\ ShortCalls = {}
     \/ At(t, "join") /\ frames[Current(t).thread] = <<>>
  /\ Advance(t, 1) /\ UNCHANGED <<test, store, runtimeVars, dead, failed>>

Check(t) ==
  /\ At(t, "expect") \/ At(t, "assert")
  /\ IF Holds(Current(t).cond, t)
     THEN Advance(t, 1) /\ UNCHANGED failed
     ELSE /\ failed' = failed \cup {<<Top(t).r, Current(t)>>}
          /\ IF Current(t).op = "expect" THEN Advance(t, 1)
                                         ELSE frames' = [frames EXCEPT ![t] = Abandoned(t)]
  /\ UNCHANGED <<test, store, runtimeVars, dead>>

Spawn(t) ==
  /\ At(t, "spawn")
  /\ frames' = (Current(t).thread :> <<Frame(Current(t).routine, "", "", "", Nobody)>>)
               @@ [frames EXCEPT ![t] = Moved(@, 1)]
  /\ UNCHANGED <<test, store, runtimeVars, dead, failed>>

--------------------------------------------------------------------------------
(* Services come and go: a message to the connections that are concerned.     *)
Offer(svc, up) == [kind |-> "offer", svc |-> svc, up |-> up,
                   parent |-> offered[svc].parent, iface |-> offered[svc].iface]
Concerned(c, svc, parent) == \E p \in DOMAIN proxies :
  proxies[p].conn = c /\ proxies[p].svc \in {svc, parent}
Announce(msgs) == inbox' = [c \in DOMAIN inbox |-> inbox[c] \o
                              SelectSeq(msgs, LAMBDA m : Concerned(c, m.svc, m.parent))]

Register(t) ==
  /\ At(t, "register") /\ Advance(t, 1)
  /\ LET i == Current(t)
     IN  IF i.svc \in DOMAIN offered \/ i.parent \notin DOMAIN offered \cup {""}
         THEN UNCHANGED <<offered, inbox>>
         ELSE /\ offered' = (i.svc :> [iface |-> i.iface, parent |-> i.parent]) @@ offered
              /\ Announce(<<[kind |-> "offer", svc |-> i.svc, up |-> TRUE,
                             parent |-> i.parent, iface |-> i.iface]>>)
  /\ UNCHANGED <<test, store, proxies, listeners, calls, dead, failed>>

(* A service takes the services it manages with it, and its subscribers. *)
Below(S) == {s \in DOMAIN offered : offered[s].parent \in S}
Unregister(t) ==
  /\ At(t, "unregister") /\ Advance(t, 1)
  /\ LET own == Current(t).svcs \cap DOMAIN offered
         children == Below(Current(t).parents)
         gone == SetToSeq(Below(children)) \o SetToSeq(children) \o SetToSeq(own)
     IN  /\ offered' = [s \in DOMAIN offered \ ToSet(gone) |-> offered[s]]
         /\ Announce([i \in DOMAIN gone |-> Offer(gone[i], FALSE)])
         /\ listeners' = [i \in DOMAIN listeners |->
              IF proxies[listeners[i].proxy].svc \in ToSet(gone)
              THEN [listeners[i] EXCEPT !.on = FALSE] ELSE listeners[i]]
  /\ UNCHANGED <<test, store, proxies, calls, dead, failed>>

Build(t) ==
  /\ At(t, "build") /\ Advance(t, 1)
  /\ LET i == Current(t)
     IN  /\ proxies' = (i.proxy :> [svc |-> i.svc, conn |-> i.conn, up |-> FALSE]) @@ proxies
         /\ IF i.svc \in DOMAIN offered THEN Send(i.conn, <<Offer(i.svc, TRUE)>>)
                                        ELSE UNCHANGED inbox
  /\ UNCHANGED <<test, store, offered, listeners, calls, dead, failed>>

Destroy(gone) ==
  /\ proxies' = [p \in DOMAIN proxies \ gone |-> proxies[p]]
  /\ listeners' = SelectSeq(listeners, LAMBDA l : l.proxy \notin gone)
  /\ calls' = SelectSeq(calls, LAMBDA call : call.proxy \notin gone)

Drop(t) ==
  /\ At(t, "drop") /\ Advance(t, 1) /\ Destroy(Current(t).proxies)
  /\ UNCHANGED <<test, store, offered, inbox, dead, failed>>

Leave(t) ==
  /\ \/ /\ At(t, "blockEnd") \/ At(t, "bodyEnd")
        /\ dead' = dead \cup Current(t).vars /\ Destroy(Current(t).proxies)
     \/ At(t, "end") /\ dead' = dead \cup Current(t).vars /\ Destroy(DOMAIN proxies)
  /\ Advance(t, 1) /\ UNCHANGED <<test, store, offered, inbox, failed>>

(* An instruction on a proxy that does not exist: a null pointer. *)
OnProxy == {"subscribe", "call", "forget", "callAsync", "ask"}
NullProxy(t) ==
  /\ \E op \in OnProxy : At(t, op)
  /\ ~HasProxy(Current(t).proxy)
  /\ failed' = failed \cup {<<Top(t).r, Current(t)>>}
  /\ frames' = [frames EXCEPT ![t] = Abandoned(t)]
  /\ UNCHANGED <<test, store, runtimeVars, dead>>

--------------------------------------------------------------------------------
(* Subscriptions.  A listener for the status is told the present one, one for *)
(* instances those that are there; a listener for an event asks the service.  *)
Subscribe(t) ==
  /\ At(t, "subscribe") /\ HasProxy(Current(t).proxy) /\ Advance(t, 1)
  /\ LET i == Current(t)
         p == proxies[i.proxy]
     IN  /\ listeners' = Append(listeners,
              [key |-> i.key, proxy |-> i.proxy, kind |-> i.kind, event |-> i.event, cb |-> i.cb,
               onStatus |-> i.onStatus, known |-> {}, on |-> FALSE])
         /\ CASE i.kind = "status" -> Send(p.conn, <<[kind |-> "report", key |-> i.key]>>)
              [] i.kind = "instances" ->
                   LET there == SetToSeq(Children(p.svc, i.event))
                   IN  Send(p.conn, [n \in DOMAIN there |-> Offer(there[n], TRUE)])
              [] i.kind = "event" ->
                   IF p.up THEN Send("service", <<[kind |-> "request", key |-> i.key]>>)
                           ELSE UNCHANGED inbox
  /\ UNCHANGED <<test, store, offered, proxies, calls, dead, failed>>

Unsubscribe(t) ==
  /\ At(t, "unsubscribe") /\ Advance(t, 1)
  /\ listeners' = SelectSeq(listeners, LAMBDA l : l.key # Current(t).key)
  /\ UNCHANGED <<test, store, offered, proxies, calls, inbox, dead, failed>>

(* The service accepts or refuses; an attribute's subscriber gets its value.  *)
Acknowledged(key, status) ==
  LET l == listeners[WithKey(key)]
      c == proxies[l.proxy].conn
      value == IF status = "SUCCESS" /\ l.event \in DOMAIN store
               THEN <<[kind |-> "event", key |-> key, val |-> store[l.event]]>> ELSE << >>
  IN  /\ listeners' = [listeners EXCEPT ![WithKey(key)].on = (status = "SUCCESS")]
      /\ inbox' = [inbox EXCEPT ![c] = @ \o <<[kind |-> "ack", key |-> key, val |-> status]>>
                                         \o value]

Answer(t) ==
  /\ At(t, "answer") /\ Advance(t, 1)
  /\ IF KeyKnown(Top(t).who) THEN Acknowledged(Top(t).who, Current(t).verdict)
                             ELSE UNCHANGED <<listeners, inbox>>
  /\ UNCHANGED <<test, store, offered, proxies, calls, dead, failed>>

(* What the listeners of an event are sent. *)
Fired(svc, event, val) ==
  [c \in DOMAIN inbox |->
     LET mine == SelectSeq(listeners, LAMBDA l :
                   l.on /\ l.event = event /\ proxies[l.proxy].svc = svc /\ proxies[l.proxy].conn = c)
     IN  inbox[c] \o [i \in DOMAIN mine |-> [kind |-> "event", key |-> mine[i].key, val |-> val]]]

Fire(t) ==
  /\ At(t, "fire") \/ At(t, "fireArg")
  /\ Advance(t, 1)
  /\ inbox' = Fired(Current(t).svc, Current(t).event,
                    IF Current(t).op = "fire" THEN Current(t).val ELSE Top(t).val)
  /\ UNCHANGED <<test, store, offered, proxies, listeners, calls, dead, failed>>

--------------------------------------------------------------------------------
(* Calls.  A synchronous one blocks its thread until the stub replies, or has *)
(* not replied when nothing else happens any more.                            *)
Request(i, by) ==
  [kind |-> "call", svc |-> proxies[i.proxy].svc, method |-> i.method, val |-> i.arg, by |-> by]

Call(t) ==
  /\ At(t, "call") /\ HasProxy(Current(t).proxy)
  /\ LET i == Current(t)
     IN  IF proxies[i.proxy].up
         THEN /\ frames' = [frames EXCEPT ![t] = <<[Top(t) EXCEPT !.busy = TRUE]>> \o Tail(@)]
              /\ Send("service", <<Request(i, Caller(t, 0))>>)
              /\ UNCHANGED store
         ELSE /\ store' = [store EXCEPT ![i.status] = "NOT_AVAILABLE"]
              /\ Advance(t, 1) /\ UNCHANGED inbox
  /\ UNCHANGED <<test, offered, proxies, listeners, calls, dead, failed>>

(* Fire and forget: there is no answer to wait for.                           *)
CallAndForget(t) ==
  /\ At(t, "forget") /\ HasProxy(Current(t).proxy) /\ Advance(t, 1)
  /\ LET i == Current(t)
     IN  IF proxies[i.proxy].up
         THEN /\ store' = [store EXCEPT ![i.status] = "SUCCESS"]
              /\ Send("service", <<Request(i, Nobody)>>)
         ELSE store' = [store EXCEPT ![i.status] = "NOT_AVAILABLE"] /\ UNCHANGED inbox
  /\ UNCHANGED <<test, offered, proxies, listeners, calls, dead, failed>>

(* An asynchronous call waits for its answer among the calls, and before that *)
(* for the proxy to become available; its number is new among them.           *)
CallAsync(t) ==
  /\ At(t, "callAsync") /\ HasProxy(Current(t).proxy) /\ Advance(t, 1)
  /\ LET i == Current(t)
         p == proxies[i.proxy]
         new == CHOOSE n \in 1 .. Len(calls) + 1 : \A k \in DOMAIN calls : calls[k].id # n
     IN  /\ calls' = Append(calls, [id |-> new, proxy |-> i.proxy, cb |-> i.cb, short |-> i.short,
                                    request |-> Request(i, Caller("", new)), sent |-> p.up])
         /\ IF p.up THEN Send("service", <<Request(i, Caller("", new))>>) ELSE UNCHANGED inbox
  /\ UNCHANGED <<test, store, offered, proxies, listeners, dead, failed>>

Answers(i, status, result) ==
  /\ calls' = [n \in 1 .. Len(calls) - 1 |-> calls[IF n < i THEN n ELSE n + 1]]
  /\ Send(proxies[calls[i].proxy].conn,
          <<[kind |-> "answer", cb |-> calls[i].cb, val |-> status, who |-> result]>>)

Reply(t) ==
  /\ At(t, "reply")
  /\ LET by == Top(t).by
         answered == {i \in DOMAIN calls : calls[i].id = by.call}
     IN  /\ IF by.thread # ""
            THEN /\ frames' = [frames EXCEPT ![t] = Moved(@, 1), ![by.thread] = Moved(@, 1)]
                 /\ store' = [store EXCEPT ![Current(by.thread).status] = "SUCCESS"]
            ELSE Advance(t, 1) /\ UNCHANGED store
         /\ IF answered = {} THEN UNCHANGED <<calls, inbox>>
                             ELSE \E i \in answered : Answers(i, "SUCCESS", Top(t).val)
  /\ UNCHANGED <<test, offered, proxies, listeners, dead, failed>>

CallFails(t) ==
  /\ frames[t] # <<>> /\ Top(t).busy /\ Quiet
  /\ store' = [store EXCEPT ![Current(t).status] = "REMOTE_ERROR"]
  /\ Advance(t, 1) /\ UNCHANGED <<test, runtimeVars, dead, failed>>

(* A call that is not answered in time: with a timeout of 100 ms it may end   *)
(* at any time, with one of a second or more when nothing else can go on.     *)
Expire(i) ==
  /\ calls[i].short \/ (Quiet /\ ShortCalls = {})
  /\ Answers(i, IF calls[i].sent THEN "REMOTE_ERROR" ELSE "NOT_AVAILABLE", "")
  /\ UNCHANGED <<test, frames, store, offered, proxies, listeners, dead, failed>>

(* The answer to a question about instances comes as a callback. *)
Ask(t) ==
  /\ At(t, "ask") /\ HasProxy(Current(t).proxy) /\ Advance(t, 1)
  /\ LET i == Current(t)
         p == proxies[i.proxy]
         answer == IF i.svc # "" THEN (IF i.svc \in DOMAIN offered THEN "AVAILABLE"
                                                                  ELSE "NOT_AVAILABLE")
                   ELSE Cardinality(Children(p.svc, i.iface))
     IN  Send(p.conn, <<[kind |-> "answer", cb |-> i.cb, val |-> answer, who |-> ""]>>)
  /\ UNCHANGED <<test, store, offered, proxies, listeners, calls, dead, failed>>

--------------------------------------------------------------------------------
(* The delivery of the first message of a connection whose thread is free.    *)
Next1(c, kind) == frames[c] = <<>> /\ inbox[c] # <<>> /\ Head(inbox[c]).kind = kind
StatusOf(up) == IF up THEN "AVAILABLE" ELSE "NOT_AVAILABLE"

(* The proxies of the service change, then those who listen are called, each  *)
(* for what it did not know; on becoming available a proxy subscribes.        *)
DeliverOffer(c) ==
  /\ Next1(c, "offer")
  /\ LET m == Head(inbox[c])
         Mine(p) == proxies[p].conn = c /\ proxies[p].svc = m.svc
         fact == IF m.up THEN {m.svc} ELSE {}
         Told(l) == \/ l.kind = "status" /\ Mine(l.proxy) /\ l.known # {StatusOf(m.up)}
                    \/ /\ l.kind = "instances" /\ l.event = m.iface
                       /\ proxies[l.proxy].conn = c /\ proxies[l.proxy].svc = m.parent
                       /\ m.up # (m.svc \in l.known)
         told == SelectSeq(listeners, Told)
         asking == SelectSeq(listeners, LAMBDA l : l.kind = "event" /\ Mine(l.proxy)
                                          /\ m.up /\ ~proxies[l.proxy].up)
         Waiting(call) == Mine(call.proxy) /\ m.up /\ ~call.sent
         waiting == SelectSeq(calls, Waiting)
         rest == [inbox EXCEPT ![c] = Tail(@)]
     IN  /\ proxies' = [p \in DOMAIN proxies |->
                          IF Mine(p) THEN [proxies[p] EXCEPT !.up = m.up] ELSE proxies[p]]
         /\ listeners' = [i \in DOMAIN listeners |->
              LET l == listeners[i]
              IN  IF ~Told(l) THEN l
                  ELSE IF l.kind = "status" THEN [l EXCEPT !.known = {StatusOf(m.up)}]
                  ELSE [l EXCEPT !.known = (@ \ {m.svc}) \cup fact]]
         /\ frames' = [frames EXCEPT ![c] = [i \in DOMAIN told |->
              Frame(told[i].cb, StatusOf(m.up), m.svc, told[i].key, Nobody)]]
         /\ calls' = [i \in DOMAIN calls |->
                        IF Waiting(calls[i]) THEN [calls[i] EXCEPT !.sent = TRUE] ELSE calls[i]]
         /\ inbox' = [rest EXCEPT !["service"] =
                        @ \o [i \in DOMAIN asking |-> [kind |-> "request", key |-> asking[i].key]]
                          \o [i \in DOMAIN waiting |-> waiting[i].request]]
  /\ UNCHANGED <<test, store, offered, dead, failed>>

DeliverReport(c) ==
  /\ Next1(c, "report") /\ inbox' = [inbox EXCEPT ![c] = Tail(@)]
  /\ LET key == Head(inbox[c]).key
         l == listeners[WithKey(key)]
         status == StatusOf(proxies[l.proxy].up)
     IN  IF KeyKnown(key) /\ l.known # {status}
         THEN /\ listeners' = [listeners EXCEPT ![WithKey(key)].known = {status}]
              /\ frames' = [frames EXCEPT ![c] = <<Frame(l.cb, status, "", key, Nobody)>>]
         ELSE UNCHANGED <<frames, listeners>>
  /\ UNCHANGED <<test, store, offered, proxies, calls, dead, failed>>

DeliverCallback(c) ==
  /\ \E kind \in {"event", "ack", "answer"} : Next1(c, kind)
  /\ inbox' = [inbox EXCEPT ![c] = Tail(@)]
  /\ LET m == Head(inbox[c])
         key == IF m.kind = "answer" THEN "" ELSE m.key
         cb == IF m.kind = "answer" THEN m.cb
               ELSE IF ~KeyKnown(key) THEN ""
               ELSE IF m.kind = "ack" THEN listeners[WithKey(key)].onStatus
               ELSE listeners[WithKey(key)].cb
     IN  frames' = IF cb = "" THEN frames
                   ELSE [frames EXCEPT ![c] = <<Frame(cb, m.val, IF m.kind = "answer" THEN m.who ELSE "",
                                                      key, Nobody)>>]
  /\ UNCHANGED <<test, store, offered, proxies, listeners, calls, dead, failed>>

DeliverCall(c) ==
  /\ Next1(c, "call") /\ inbox' = [inbox EXCEPT ![c] = Tail(@)]
  /\ LET m == Head(inbox[c])
     IN  frames' = IF m.svc \notin DOMAIN offered \/ Routines[m.method] = <<>> THEN frames
                   ELSE [frames EXCEPT ![c] = <<Frame(m.method, m.val, "", "", m.by)>>]
  /\ UNCHANGED <<test, store, offered, proxies, listeners, calls, dead, failed>>

(* A selective event asks its stub; other events accept every subscriber.     *)
DeliverRequest(c) ==
  /\ Next1(c, "request")
  /\ LET key == Head(inbox[c]).key
         l == listeners[WithKey(key)]
         rest == [inbox EXCEPT ![c] = Tail(@)]
     IN  IF ~KeyKnown(key) \/ (proxies[l.proxy].svc \notin DOMAIN offered)
         THEN inbox' = rest /\ UNCHANGED <<frames, listeners>>
         ELSE IF l.event \in DOMAIN Routines
         THEN /\ frames' = [frames EXCEPT ![c] = <<Frame(l.event, "", key, "", Nobody)>>]
              /\ inbox' = rest /\ UNCHANGED listeners
         ELSE /\ listeners' = [listeners EXCEPT ![WithKey(key)].on = TRUE]
              /\ inbox' = [rest EXCEPT ![proxies[l.proxy].conn] =
                   @ \o <<[kind |-> "ack", key |-> key, val |-> "SUCCESS"]>>
                     \o IF l.event \in DOMAIN store
                        THEN <<[kind |-> "event", key |-> key, val |-> store[l.event]]>> ELSE <<>>]
              /\ UNCHANGED frames
  /\ UNCHANGED <<test, store, offered, proxies, calls, dead, failed>>

Thread(t) == \/ Cancel(t) \/ Assign(t) \/ Branch(t) \/ Wait(t) \/ Check(t) \/ Spawn(t)
             \/ Register(t) \/ Unregister(t) \/ Build(t) \/ Drop(t) \/ Leave(t) \/ NullProxy(t)
             \/ Subscribe(t) \/ Unsubscribe(t) \/ Answer(t) \/ Fire(t)
             \/ Call(t) \/ CallAndForget(t) \/ CallAsync(t) \/ Reply(t) \/ CallFails(t) \/ Ask(t)
Deliver(c) == \/ DeliverOffer(c) \/ DeliverReport(c) \/ DeliverCallback(c)
              \/ DeliverCall(c) \/ DeliverRequest(c)

Next == \/ \E t \in DOMAIN frames : Thread(t)
        \/ \E c \in DOMAIN inbox : Deliver(c)
        \/ \E i \in DOMAIN calls : Expire(i)

(* The scheduler lets the threads run as long as one of them can. *)
Spec == Init /\ [][Next]_vars /\ WF_vars(Next)

--------------------------------------------------------------------------------
Excused(known) == IF test[2] \in DOMAIN known THEN known[test[2]] ELSE {}
Conditions(i) == IF "cond" \in DOMAIN i THEN i.cond ELSE <<>>

(* No assertion of a test fails, in its thread or in a callback, however the   *)
(* threads are scheduled, and no test goes through a proxy that is gone: where *)
(* a test asserts, it has waited for what it asserts, and not only slept.      *)
(* Excused are the single conditions for which this is known not to be so.     *)
AssertionsHold == \A f \in failed : Conditions(f[2]) \in Excused(KnownRaces)

(* A callback that is running uses no variable of a function that was left:   *)
(* lambdas capture the locals of the test's body by reference, and subscrip-  *)
(* tions may outlive it.  Excused are the single variables for which a test   *)
(* is known to fail this.                                                      *)
VarsOf(i) ==
  {i[f] : f \in {"var", "to", "from", "status"} \cap DOMAIN i}
  \cup UNION {{l[f] : f \in {"var", "other"} \cap DOMAIN l} : l \in ToSet(Conditions(i))}
NoUseAfterScope ==
  \A t \in DOMAIN frames \ {"main"} :
    frames[t] # <<>> /\ ~Cancelled(t)
      => VarsOf(Current(t)) \cap dead \subseteq Excused(KnownEscapes)

(* Every test comes to its end, and no thread it started and no callback is    *)
(* left waiting for what the connection it occupies would have to deliver.     *)
TestEnds == <>(\A t \in DOMAIN frames : frames[t] = <<>>)
==================================================================================
