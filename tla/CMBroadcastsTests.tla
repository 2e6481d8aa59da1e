---------------------------- MODULE CMBroadcastsTests ----------------------------
(***************************************************************************)
(* The tests of broadcasts (CMBroadcasts.cpp) with their stub, which fires *)
(* broadcasts as its method is told to.  The variables the callbacks write *)
(* are locals of the tests' bodies, captured by reference.                 *)
(***************************************************************************)
EXTENDS TestScript

(* The stub's method fires one of the two broadcasts, or changes whom the    *)
(* selective one accepts; its hook is asked about every subscription.        *)
Stub == [
  testMethod |->
    When(Arg(1), Fire("sample", "BTest", 1)) \o When(Arg(2), Set("acceptSubscriptions", FALSE))
    \o When(Arg(3), Fire("sample", "BTestSelective", 1))
    \o When(Arg(4), Set("acceptSubscriptions", TRUE)) \o Reply,
  BTestSelective |->
    When(Is("acceptSubscriptions", TRUE), Answer("SUCCESS"))
    \o When(Is("acceptSubscriptions", FALSE), Answer("SUBSCRIPTION_REFUSED"))]

SetUp ==
  Register("sample", "TestInterface") \o Build("proxy", "sample", "client") \o Until(Up("proxy"))

TearDown ==
  Unregister("sample")
  \o When(Exists("proxy"), WaitFor(Down("proxy")) \o Require(Down("proxy")))

(* Each test declares its own results and statuses. *)
Fixture(body, results, statuses, owned) ==
  [code |-> SetUp \o body \o BodyEnd(results \cup statuses, owned) \o TearDown \o End({}),
   vars |-> [v \in results |-> 0] @@ [v \in statuses \cup {"call"} |-> "UNKNOWN"]
            @@ [acceptSubscriptions |-> TRUE],
   unset |-> {}, conns |-> {"service", "client", "other"}]

\* What the lambdas of the tests do
Callbacks == [
  setResult |-> SetArg("result"), setStatus |-> SetArg("subStatus"),
  setResult2 |-> SetArg("result2"), setStatus2 |-> SetArg("subStatus2"),
  setStatus3 |-> SetArg("subStatus3"), setStatus4 |-> SetArg("subStatus4"),
  countError |-> Inc("errorHandlerCount")]

testMethod(x)   == Call("proxy", "testMethod", x, "call") \o Expect(Is("call", "SUCCESS"))
Broadcast(e)    == Subscribe("subscription", "proxy", e, "setResult", "setStatus")
Subscribed(s)   == WaitFor(Is(s, "SUCCESS")) \o Expect(Is(s, "SUCCESS"))
Received(r)     == WaitFor(Is(r, 1)) \o Expect(Is(r, 1))
Answered(status) == WaitFor(In("subStatus", {"SUCCESS", "SUBSCRIPTION_REFUSED", "NOT_AVAILABLE"}))
                    \o Expect(Is("subStatus", status))
GoOffline       == Unregister("sample") \o Until(Down("proxy"))
GoOnline        == Register("sample", "TestInterface") \o Until(Up("proxy"))

NormalBroadcast == [
  NormalBroadcast |-> Fixture(
    Broadcast("BTest") \o Subscribed("subStatus") \o testMethod(1) \o Received("result"),
    {"result"}, {"subStatus"}, {})]

(* The same stub serves a subscriber that it refuses and one it accepts.     *)
SelectiveBroadcastRejected == [
  SelectiveBroadcastRejected |-> Fixture(
    testMethod(2) \o Broadcast("BTestSelective") \o Answered("SUBSCRIPTION_REFUSED")
    \o Set("result", 0) \o testMethod(3) \o Pause \o Expect(Is("result", 0)),
    {"result"}, {"subStatus"}, {})]
SelectiveBroadcast == [
  SelectiveBroadcast |-> Fixture(
    testMethod(4) \o Broadcast("BTestSelective") \o Answered("SUCCESS")
    \o Set("result", 0) \o testMethod(3) \o WaitFor(AtLeast("result", 1)) \o Expect(Is("result", 1)),
    {"result"}, {"subStatus"}, {})]

(* A subscription made while the service is away is honoured when it comes,  *)
(* and again each time it returns.                                           *)
StubGoesOfflineOnlineAgain == [
  BroadcastStubGoesOfflineOnlineAgain |->
    [Fixture(
       GoOffline \o Broadcast("BTest") \o GoOnline \o Subscribed("subStatus")
       \o testMethod(1) \o Received("result")
       \o Set("subStatus", "UNKNOWN") \o GoOffline \o GoOnline \o Subscribed("subStatus")
       \o Set("result", 0) \o testMethod(1) \o Received("result"),
       {"result"}, {"subStatus"}, {})
     EXCEPT !.unset = {"subStatus"}]]

SelectiveStubGoesOfflineOnlineAgain == [
  SelectiveBroadcastStubGoesOfflineOnlineAgain |-> Fixture(
    testMethod(4) \o GoOffline
    \o Subscribe("subscription", "proxy", "BTestSelective", "setResult", "countError")
    \o GoOnline \o Pause \o testMethod(3) \o Received("result")
    \o GoOffline \o GoOnline \o testMethod(4) \o Pause
    \o Set("result", 0) \o testMethod(3) \o Received("result")
    \o Expect(Is("errorHandlerCount", 2)),
    {"result", "errorHandlerCount"}, {}, {})]

(* One of two subscribers goes away and returns. *)
BothAsk ==
  Set("subStatus", "UNKNOWN") \o Set("subStatus2", "UNKNOWN") \o Broadcast("BTest")
  \o Subscribe("subscription2", "anotherProxy", "BTest", "setResult2", "setStatus2")
(* Mutant: the wait looks at the first status twice. *)
SubscribeBothHasty ==
  BothAsk \o WaitFor(Is("subStatus", "SUCCESS") \o Is("subStatus", "SUCCESS"))
  \o Expect(Is("subStatus", "SUCCESS")) \o Expect(Is("subStatus2", "SUCCESS"))
SubscribeBoth ==
  BothAsk \o WaitFor(Is("subStatus", "SUCCESS") \o Is("subStatus2", "SUCCESS"))
  \o Expect(Is("subStatus", "SUCCESS")) \o Expect(Is("subStatus2", "SUCCESS"))
BothReceive ==
  testMethod(1) \o WaitFor(Is("result", 1) \o Is("result2", 1))
  \o Expect(Is("result", 1)) \o Expect(Is("result2", 1))
ClearResults == Set("result", 0) \o Set("result2", 0)
AnotherProxy == Build("anotherProxy", "sample", "client") \o Until(Up("anotherProxy"))

TwoProxiesSubscribeAndOneReset == [
  NormalBroadcast_Two_proxies_subscribe_and_one_reset |-> Fixture(
    AnotherProxy \o SubscribeBoth \o BothReceive
    \o ClearResults \o Drop("anotherProxy") \o testMethod(1) \o Received("result")
    \o Unsubscribe("subscription") \o ClearResults
    \o AnotherProxy \o SubscribeBoth \o BothReceive,
    {"result", "result2"}, {"subStatus", "subStatus2"}, {"anotherProxy"})]

(* Four subscribers on two connections; the first proxy is deleted, and its  *)
(* status must not be told any more when the service returns.  The test      *)
(* waits for the second and the fourth status and then asserts on the third. *)
Confirmed(s) == WaitFor(Is(s, "SUCCESS")) \o Require(Is(s, "SUCCESS"))
TwoProxiesSubscribeDeleteOne == [
  Two_proxies_subscribe_delete_one_proxy_status_listener_test |-> Fixture(
    Subscribe("s1", "proxy", "BTest", "", "setStatus") \o Confirmed("subStatus")
    \o Build("testProxy2", "sample", "client")
    \o Subscribe("s2", "testProxy2", "BTest", "", "setStatus2") \o Confirmed("subStatus2")
    \o Build("secondProxy", "sample", "client") \o Until(Up("secondProxy"))
    \o Subscribe("s3", "secondProxy", "BTest", "", "setStatus3")
    \o Build("thirdProxy", "sample", "other") \o Until(Up("thirdProxy"))
    \o Subscribe("s4", "thirdProxy", "BTest", "", "setStatus4")
    \o Drop("proxy") \o Confirmed("subStatus3") \o Confirmed("subStatus4")
    \o Set("subStatus", "UNKNOWN") \o Set("subStatus2", "UNKNOWN")
    \o Set("subStatus3", "UNKNOWN") \o Set("subStatus4", "UNKNOWN")
    \o Unregister("sample") \o Pause \o Register("sample", "TestInterface")
    \o WaitFor(Is("subStatus2", "SUCCESS") \o Is("subStatus4", "SUCCESS") \o Is("subStatus4", "SUCCESS"))
    \o Require(Is("subStatus2", "SUCCESS")) \o Require(Is("subStatus3", "SUCCESS"))
    \o Require(Is("subStatus4", "SUCCESS")) \o Require(Is("subStatus", "UNKNOWN")),
    {}, {"subStatus", "subStatus2", "subStatus3", "subStatus4"},
    {"testProxy2", "secondProxy", "thirdProxy"})]

Tests ==
  NormalBroadcast @@ SelectiveBroadcastRejected @@ SelectiveBroadcast @@ StubGoesOfflineOnlineAgain
  @@ SelectiveStubGoesOfflineOnlineAgain @@ TwoProxiesSubscribeAndOneReset
  @@ TwoProxiesSubscribeDeleteOne
Routines == Callbacks @@ Stub
Suite == [tests |-> Tests, routines |-> Routines]
================================================================================
