---------------------------- MODULE CMMethodCallsTests ----------------------------
(***************************************************************************)
(* The tests of method calls (CMMethodCalls.cpp) with their stub: calls    *)
(* that wait, that do not, that are made from the callback of another one, *)
(* that find no service and wait for it, and that are never answered.      *)
(***************************************************************************)
EXTENDS TestScript

CONSTANTS
  MaxTimeoutCalls, \* bound: the calls the callbacks of timeouts make (10 in the code)
  Calls            \* bound: the calls a test makes at once through each proxy (250 in the code)

(* The stub answers a call with its argument, never, or with a broadcast. *)
Stub == [testMethod |-> Reply, testMethodTimeout |-> <<>>,
         testDontCare |-> Fire("first", "BTest", 1)]

SetUp ==
  Register("first", "TestInterface") \o Build("proxy", "first", "client") \o Until(Up("proxy"))

TearDown ==
  Unregister("first") \o When(Is("testStub2", TRUE), Unregister("second"))
  \o When(Exists("proxy"), Until(Down("proxy"))) \o When(Exists("proxy2"), Until(Down("proxy2")))
  \o Set("values", <<>>) \o Set("timeouts", 0)

Fixture(body, locals) ==
  [code |-> SetUp \o body \o BodyEnd(DOMAIN locals, {}) \o TearDown \o End({}),
   vars |-> [values |-> <<>>, timeouts |-> 0, timeoutCalls |-> 0, testStub2 |-> FALSE] @@ locals,
   unset |-> {}, conns |-> {"service", "client"}]

(* What the callbacks do with the answer to a call; of the list of timeouts *)
(* that occurred only the length matters.                                   *)
recvValue   == Expect(Arg("SUCCESS")) \o PushReply("values")
recvTimeout == Expect(Arg("NOT_AVAILABLE")) \o Inc("timeouts")
timeoutCallback(p, cb) ==
  Expect(Arg("REMOTE_ERROR")) \o Inc("timeouts")
  \o When(AtMost("timeoutCalls", MaxTimeoutCalls - 1),
          CallAsync(p, "testMethodTimeout", 0, cb, TRUE) \o Inc("timeoutCalls"))
countNotAvailable(count, promise) ==
  Inc(count) \o Expect(Arg("NOT_AVAILABLE")) \o When(Is(count, Calls), Set(promise, TRUE))
Callbacks == [
  recvValue |-> recvValue, recvTimeout |-> recvTimeout,
  timeoutCallback |-> timeoutCallback("proxy", "timeoutCallback"),
  timeoutCallback2 |-> timeoutCallback("proxy2", "timeoutCallback2"),
  setResult |-> SetArg("result"), setStatus |-> SetArg("subStatus"),
  nestedCall |-> Expect(Arg("SUCCESS")) \o Call("proxy", "testMethod", 7, "status")
                 \o Expect(Is("status", "SUCCESS")) \o PushReply("values"),
  nestedCallAsync |-> recvValue \o CallAsync("proxy", "testMethod", 7, "recvValue", FALSE),
  nestedTimeout |-> recvTimeout \o CallAsync("proxy", "testMethod", 5, "recvTimeout", TRUE),
  countNotAvailable |-> countNotAvailable("called", "p1"),
  countNotAvailable2 |-> countNotAvailable("called2", "p2"),
  deleteThread |-> Drop("proxy") \o Set("p", TRUE)]

testMethodAsync(cb, short) == CallAsync("proxy", "testMethod", 5, cb, short)
GoOffline == Unregister("first") \o Until(Down("proxy"))
GoOnline  == Register("first", "TestInterface") \o Until(Up("proxy"))

SynchronousMethodCall == [
  SynchronousMethodCall |-> Fixture(
    Call("proxy", "testMethod", 5, "callStatus") \o Expect(Is("callStatus", "SUCCESS")),
    [callStatus |-> "UNKNOWN"])]

FireAndForget == [
  FireAndForget |-> Fixture(
    Subscribe("subscription", "proxy", "BTest", "setResult", "setStatus")
    \o WaitFor(Is("subStatus", "SUCCESS")) \o Expect(Is("subStatus", "SUCCESS"))
    \o Set("result", 0) \o Set("callStatus", "REMOTE_ERROR")
    \o CallAndForget("proxy", "testDontCare", 5, "callStatus") \o Expect(Is("callStatus", "SUCCESS"))
    \o WaitFor(Is("result", 1)) \o Expect(Is("result", 1)),
    [result |-> 0, subStatus |-> "UNKNOWN", callStatus |-> "UNKNOWN"])]

AsynchronousMethodCall == [
  AsynchronousMethodCall |-> Fixture(
    testMethodAsync("recvValue", FALSE) \o Pause \o Expect(Is("values", <<5>>)), << >>)]

(* The callback of a call makes another one, waiting for its answer or not.  *)
NestedSynchronousMethodCall == [
  NestedSynchronousMethodCall |-> Fixture(
    testMethodAsync("nestedCall", FALSE) \o WaitFor(NonEmpty("values")) \o Expect(Is("values", <<5>>)),
    [status |-> "UNKNOWN"])]
NestedAsynchronousMethodCall == [
  NestedAsynchronousMethodCall |-> Fixture(
    testMethodAsync("nestedCallAsync", FALSE) \o WaitFor(Size("values", 2))
    \o Expect(Is("values", <<5, 7>>)), << >>)]

(* Two services, whose calls are never answered; each timeout makes the next *)
(* call, up to a number.  Under the second address it registers the stub of  *)
(* the first, and has a second one only for TearDown() to see.               *)
NestedAsynchronousMethodCallsTimedOut == [
  NestedAsynchronousMethodCallsTimedOut |-> Fixture(
    Set("testStub2", TRUE) \o Register("second", "TestInterface")
    \o Build("proxy2", "second", "client") \o Until(Up("proxy2"))
    \o CallAsync("proxy", "testMethodTimeout", 0, "timeoutCallback", TRUE) \o Inc("timeoutCalls")
    \o CallAsync("proxy2", "testMethodTimeout", 0, "timeoutCallback2", TRUE) \o Inc("timeoutCalls")
    \o WaitFor(NotBelow("timeouts", "timeoutCalls")) \o Expect(Equal("timeouts", "timeoutCalls")),
    << >>)]

AsynchronousMethodCallProxyNotAvailable == [
  AsynchronousMethodCallProxyNotAvailable |-> Fixture(
    GoOffline \o testMethodAsync("recvTimeout", TRUE) \o WaitFor(AtLeast("timeouts", 1))
    \o Expect(Is("timeouts", 1)), << >>)]
NestedAsynchronousMethodCallProxyNotAvailable == [
  NestedAsynchronousMethodCallProxyNotAvailable |-> Fixture(
    GoOffline \o testMethodAsync("nestedTimeout", TRUE) \o WaitFor(Is("timeouts", 2)) \o Expect(Is("timeouts", 2)), << >>)]

(* The service returns before a long timeout ends, and after a short one.    *)
AsynchronousMethodCallProxyBecomesAvailable == [
  AsynchronousMethodCallProxyBecomesAvailable |-> Fixture(
    GoOffline \o testMethodAsync("recvValue", FALSE) \o Sleep \o GoOnline
    \o WaitFor(NonEmpty("values")) \o Expect(Is("values", <<5>>)), << >>)]
NestedAsynchronousMethodCallProxyBecomesAvailable == [
  NestedAsynchronousMethodCallProxyBecomesAvailable |-> Fixture(
    GoOffline \o testMethodAsync("nestedCallAsync", FALSE) \o Pause \o GoOnline
    \o WaitFor(Size("values", 2)) \o Expect(Is("values", <<5, 7>>)), << >>)]
AsynchronousMethodCallsProxyBecomesAvailable == [
  AsynchronousMethodCallsProxyBecomesAvailable |-> Fixture(
    GoOffline \o Repeat(2, LAMBDA i : testMethodAsync("recvTimeout", TRUE))
    \o Repeat(3, LAMBDA i : testMethodAsync("recvValue", FALSE)) \o Sleep \o GoOnline
    \o WaitFor(Size("values", 3)) \o Expect(Is("values", <<5, 5, 5>>)) \o WaitFor(Is("timeouts", 2)) \o Expect(Is("timeouts", 2)),
    << >>)]

(* A thread deletes the proxy while its call still waits for the service.    *)
AsynchronousMethodCallProxyNotAvailableDeleteProxy == [
  AsynchronousMethodCallProxyNotAvailableDeleteProxy |-> Fixture(
    GoOffline \o testMethodAsync("recvTimeout", FALSE) \o Spawn("deleteThread", "deleteThread")
    \o WaitFor(Is("p", TRUE)) \o Expect(Is("p", TRUE))
    \o WaitFor(Destroyed("proxy")) \o Expect(Destroyed("proxy")) \o Join("deleteThread"),
    [p |-> FALSE])]

(* Each of many calls through two proxies is told that there is no service.  *)
AsynchronousMethodCallsReceiveNotAvailable == [
  AsynchronousMethodCallsReceiveNotAvailable |-> Fixture(
    Build("proxy2", "first", "client") \o Until(Up("proxy2"))
    \o GoOffline \o Until(Down("proxy2"))
    \o Repeat(Calls, LAMBDA i : testMethodAsync("countNotAvailable", TRUE)
                                \o CallAsync("proxy2", "testMethod", 5, "countNotAvailable2", TRUE))
    \o WaitFor(Is("p1", TRUE)) \o Expect(Is("p1", TRUE))
    \o WaitFor(Is("p2", TRUE)) \o Expect(Is("p2", TRUE))
    \o Expect(Is("called", Calls)) \o Expect(Is("called2", Calls)),
    [called |-> 0, called2 |-> 0, p1 |-> FALSE, p2 |-> FALSE])]

Tests ==
  SynchronousMethodCall @@ FireAndForget @@ AsynchronousMethodCall
  @@ NestedSynchronousMethodCall @@ NestedAsynchronousMethodCall
  @@ NestedAsynchronousMethodCallsTimedOut @@ AsynchronousMethodCallProxyNotAvailable
  @@ NestedAsynchronousMethodCallProxyNotAvailable @@ AsynchronousMethodCallProxyBecomesAvailable
  @@ NestedAsynchronousMethodCallProxyBecomesAvailable
  @@ AsynchronousMethodCallsProxyBecomesAvailable
  @@ AsynchronousMethodCallProxyNotAvailableDeleteProxy @@ AsynchronousMethodCallsReceiveNotAvailable
Suite == [tests |-> Tests, routines |-> Callbacks @@ Stub]
================================================================================
