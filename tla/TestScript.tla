------------------------------- MODULE TestScript -------------------------------
(***************************************************************************)
(* What the verification tests are made of: a test, a callback or a method *)
(* of a stub is a sequence of the instructions defined here, which TestBed *)
(* carries out.  A condition is a sequence of literals that must all hold. *)
(***************************************************************************)
EXTENDS Integers, Sequences, FiniteSets, SequencesExt

\* Literals: a variable of the test, the availability of a proxy, the
\* argument of a callback and what it is about
Is(v, x)   == <<[lit |-> "is", var |-> v, vals |-> {x}]>>
In(v, S)   == <<[lit |-> "is", var |-> v, vals |-> S]>>
Isnt(v, x) == <<[lit |-> "isnt", var |-> v, val |-> x]>>
AtMost(v, n)  == <<[lit |-> "atMost", var |-> v, bound |-> n]>>
AtLeast(v, n) == <<[lit |-> "atLeast", var |-> v, bound |-> n]>>
Up(p)      == <<[lit |-> "avail", proxy |-> p, up |-> TRUE]>>
Down(p)    == <<[lit |-> "avail", proxy |-> p, up |-> FALSE]>>
Exists(p)  == <<[lit |-> "exists", proxy |-> p]>>
Destroyed(p) == <<[lit |-> "destroyed", proxy |-> p]>>
Arg(x)     == <<[lit |-> "arg", vals |-> {x}]>>
ArgIn(S)   == <<[lit |-> "arg", vals |-> S]>>
About(S)   == <<[lit |-> "about", whom |-> S]>>
Size(q, n)  == <<[lit |-> "size", var |-> q, count |-> n]>>
NonEmpty(q) == <<[lit |-> "nonEmpty", var |-> q]>>
NotBelow(v, w) == <<[lit |-> "notBelow", var |-> v, other |-> w]>>
Equal(v, w) == NotBelow(v, w) \o NotBelow(w, v)
ArgSame(v) == <<[lit |-> "same", var |-> v]>>
Instances(svc, iface, n) == <<[lit |-> "instances", svc |-> svc, iface |-> iface, count |-> n]>>
Never == <<[lit |-> "never"]>>
Offered(svc) == <<[lit |-> "offered", svc |-> svc]>>

\* Instructions on the variables of the test, waits, assertions.  A wait is a
\* loop of sleeps that lasts long, for ever, or only a moment; a pause is a
\* sleep of 10 or 20 ms, a sleep one that outlasts a short call
Set(v, x)     == <<[op |-> "set", var |-> v, val |-> x]>>
SetArg(v)     == <<[op |-> "setArg", var |-> v]>>
Inc(v)        == <<[op |-> "add", var |-> v, by |-> 1]>>
Dec(v)        == <<[op |-> "add", var |-> v, by |-> -1]>>
Push(q)       == <<[op |-> "push", var |-> q]>>
PushReply(q)  == <<[op |-> "pushReply", var |-> q]>>
PushVar(q, v) == <<[op |-> "pushVar", var |-> q, from |-> v]>>
Pop(q, v)     == <<[op |-> "pop", var |-> q, to |-> v]>>
WaitFor(c)    == <<[op |-> "wait", cond |-> c, limit |-> "long"]>>
WaitForever(c) == <<[op |-> "wait", cond |-> c, limit |-> "none"]>>
WaitBriefly(c) == <<[op |-> "wait", cond |-> c, limit |-> "brief"]>>
Pause         == WaitBriefly(Never)
Sleep         == <<[op |-> "sleep"]>>
Expect(c)     == <<[op |-> "expect", cond |-> c]>>
Require(c)     == <<[op |-> "assert", cond |-> c]>>
Until(c)      == WaitFor(c) \o Require(c)
When(c, code) == <<[op |-> "unless", cond |-> c, skip |-> Len(code)]>> \o code

\* Instructions on services, proxies and subscriptions
Register(svc, iface)   == <<[op |-> "register", svc |-> svc, iface |-> iface, parent |-> ""]>>
RegisterManaged(svc, iface, parent) ==
  <<[op |-> "register", svc |-> svc, iface |-> iface, parent |-> parent]>>
Unregister(svc)        == <<[op |-> "unregister", svcs |-> {svc}, parents |-> {svc}]>>
UnregisterManaged(parent) == <<[op |-> "unregister", svcs |-> {}, parents |-> {parent}]>>
Build(p, svc, conn)    == <<[op |-> "build", proxy |-> p, svc |-> svc, conn |-> conn]>>
Drop(p)                == <<[op |-> "drop", proxies |-> {p}]>>
Subscribe(key, p, event, cb, onStatus) ==
  <<[op |-> "subscribe", key |-> key, proxy |-> p, kind |-> "event", event |-> event,
     cb |-> cb, onStatus |-> onStatus]>>
SubscribeStatus(key, p, cb) ==
  <<[op |-> "subscribe", key |-> key, proxy |-> p, kind |-> "status", event |-> "",
     cb |-> cb, onStatus |-> ""]>>
SubscribeInstances(key, p, iface, cb) ==
  <<[op |-> "subscribe", key |-> key, proxy |-> p, kind |-> "instances", event |-> iface,
     cb |-> cb, onStatus |-> ""]>>
Unsubscribe(key)       == <<[op |-> "unsubscribe", key |-> key]>>

\* Calls through a proxy, and what a stub does
Call(p, method, x, status) ==
  <<[op |-> "call", proxy |-> p, method |-> method, arg |-> x, status |-> status]>>
CallAndForget(p, method, x, status) ==
  <<[op |-> "forget", proxy |-> p, method |-> method, arg |-> x, status |-> status]>>
CallAsync(p, method, x, cb, short) ==
  <<[op |-> "callAsync", proxy |-> p, method |-> method, arg |-> x, cb |-> cb, short |-> short]>>
AskInstances(p, iface, cb) ==
  <<[op |-> "ask", proxy |-> p, iface |-> iface, svc |-> "", cb |-> cb]>>
AskStatus(p, svc, cb)  == <<[op |-> "ask", proxy |-> p, iface |-> "", svc |-> svc, cb |-> cb]>>
Reply                  == <<[op |-> "reply"]>>
Fire(svc, event, x)    == <<[op |-> "fire", svc |-> svc, event |-> event, val |-> x]>>
FireArg(svc, event)    == <<[op |-> "fireArg", svc |-> svc, event |-> event]>>
SetAttribute(svc, attribute, x) ==
  When(Isnt(attribute, x), Set(attribute, x) \o Fire(svc, attribute, x))
Answer(status)         == <<[op |-> "answer", verdict |-> status]>>

\* Threads, and the ends of scopes: of a block or a thread's function, of the
\* body of a test, and of its fixture, with the variables and proxies that go
Spawn(t, r)    == <<[op |-> "spawn", thread |-> t, routine |-> r]>>
Join(t)        == <<[op |-> "join", thread |-> t]>>
BlockEnd(locals, owned) == <<[op |-> "blockEnd", vars |-> locals, proxies |-> owned]>>
BodyEnd(locals, owned)  == <<[op |-> "bodyEnd", vars |-> locals, proxies |-> owned]>>
End(members)   == <<[op |-> "end", vars |-> members]>>

(* A loop with a known number of rounds, unrolled. *)
Repeat(n, code(_)) == FlattenSeq([i \in 1 .. n |-> code(i)])
=================================================================================
