---------------------------- MODULE AFSelectiveTests ----------------------------
(***************************************************************************)
(* The tests of selective broadcasts (AFSelective.cpp) with their stub.    *)
(* The fixture has two proxies to it, on connections of their own, and     *)
(* tests build more on the connection of the first, or on a third one.     *)
(***************************************************************************)
EXTENDS TestScript

(* As told through its method the stub accepts subscribers or not, fires, or *)
(* fires each time that somebody has subscribed.                             *)
Stub == [
  testMethod |->
    When(Arg(2), Set("acceptSubscriptions", FALSE))
    \o When(Arg(3), Fire("selective", "BTestSelective", 1))
    \o When(Arg(4), Set("acceptSubscriptions", TRUE))
    \o When(Arg(5), Set("fireInChangedHook", TRUE)) \o Reply,
  BTestSelective |->
    When(Is("acceptSubscriptions", FALSE), Answer("SUBSCRIPTION_REFUSED"))
    \o When(Is("acceptSubscriptions", TRUE),
            Answer("SUCCESS")
            \o When(Is("fireInChangedHook", TRUE), Fire("selective", "BTestSelective", 1)))]

SetUp ==
  Register("selective", "TestInterface")
  \o Build("testProxy", "selective", "client") \o Until(Up("testProxy"))
  \o Build("testProxy2", "selective", "otherclient") \o Until(Up("testProxy2"))

TearDown ==
  Unregister("selective")
  \o When(Exists("testProxy"), Until(Down("testProxy")))
  \o When(Exists("testProxy2"), Until(Down("testProxy2")))

(* The results and the statuses are locals that the lambdas write.           *)
Fixture(body, results, statuses, owned) ==
  [code |-> SetUp \o body \o BodyEnd(results \cup statuses, owned) \o TearDown \o End({}),
   vars |-> [v \in results |-> 0] @@ [v \in statuses \cup {"callStatus"} |-> "UNKNOWN"]
            @@ [acceptSubscriptions |-> TRUE, fireInChangedHook |-> FALSE],
   unset |-> {}, conns |-> {"service", "client", "otherclient", "blub"}]

Results  == {"result", "result1", "result2", "result3", "result11", "result22"}
Callbacks ==
  [cb \in {"set " \o v : v \in Results \cup {"subStatus", "subStatus2", "subStatus3"}} |->
     SetArg(CHOOSE v \in Results \cup {"subStatus", "subStatus2", "subStatus3"} : cb = "set " \o v)]
  @@ [cb \in {"count " \o r : r \in Results} |->
        LET r == CHOOSE r \in Results : cb = "count " \o r
        IN  Inc("counter") \o SetArg("status of " \o r)]

testMethod(proxy, x) == Call(proxy, "testMethod", x, "callStatus")
SubscribeTo(key, proxy, result, status) ==
  Subscribe(key, proxy, "BTestSelective", "set " \o result, "set " \o status)
SubscribeNew(key, proxy, result, status) ==
  Set(status, "UNKNOWN") \o SubscribeTo(key, proxy, result, status)
Answered == WaitFor(In("subStatus", {"SUCCESS", "SUBSCRIPTION_REFUSED", "NOT_AVAILABLE"}))
Refused  == Answered \o Expect(Is("subStatus", "SUBSCRIPTION_REFUSED"))
Accepted == Answered \o Expect(Is("subStatus", "SUCCESS"))
WaitFires(result) == WaitFor(AtLeast(result, 1)) \o Expect(Is(result, 1))

SelectiveBroadcastRejected == [
  SelectiveBroadcastRejected |-> Fixture(
    testMethod("testProxy", 2) \o SubscribeNew("first", "testProxy", "result", "subStatus") \o Refused
    \o Set("result", 0) \o testMethod("testProxy", 3) \o Pause \o Expect(Is("result", 0)),
    {"result"}, {"subStatus"}, {})]

SelectiveBroadcast == [
  SelectiveBroadcast |-> Fixture(
    testMethod("testProxy", 4) \o SubscribeNew("first", "testProxy", "result", "subStatus") \o Accepted
    \o Set("result", 0) \o testMethod("testProxy", 3) \o WaitFires("result"),
    {"result"}, {"subStatus"}, {})]

SelectiveMultiBroadcast == [
  SelectiveMultiBroadcast |-> Fixture(
    testMethod("testProxy", 4)
    \o SubscribeNew("first", "testProxy", "result", "subStatus") \o Accepted
    \o SubscribeNew("second", "testProxy2", "result2", "subStatus") \o Accepted
    \o Set("result", 0) \o testMethod("testProxy", 3) \o WaitFires("result") \o WaitFires("result2"),
    {"result", "result2"}, {"subStatus"}, {})]

(* A proxy is built, used and destroyed twice in one test, another one never *)
(* used; their results are locals of the blocks they live in.                *)
BuildUseDestroy(key) ==
  Build("proxy", "selective", "blub") \o WaitForever(Up("proxy"))
  \o Set("result", 0) \o SubscribeNew(key, "proxy", "result", "subStatus")
  \o WaitFor(Is("subStatus", "SUCCESS")) \o Expect(Is("subStatus", "SUCCESS"))
  \o Set("result", 0) \o testMethod("proxy", 3) \o WaitFires("result")
ProxyBuildAndDestroy == [
  ProxyBuildAndDestroy |-> Fixture(
    Build("bad_proxy", "selective", "blub") \o WaitForever(Up("bad_proxy"))
    \o BuildUseDestroy("first") \o Drop("proxy") \o Drop("bad_proxy") \o BuildUseDestroy("second"),
    {"result"}, {"subStatus"}, {"proxy"})]

(* A refused listener stays silent when another of the same proxy is accepted. *)
SelectiveRejectedMultiBroadcast == [
  SelectiveRejectedMultiBroadcast |-> Fixture(
    testMethod("testProxy2", 2)
    \o SubscribeNew("first", "testProxy2", "result2", "subStatus")
    \o WaitFor(Is("subStatus", "SUBSCRIPTION_REFUSED")) \o Refused
    \o testMethod("testProxy", 4)
    \o SubscribeNew("second", "testProxy", "result", "subStatus")
    \o WaitFor(Is("subStatus", "SUCCESS")) \o Accepted
    \o SubscribeNew("third", "testProxy2", "result3", "subStatus")
    \o WaitFor(Is("subStatus", "SUCCESS")) \o Accepted
    \o Set("result", 0) \o testMethod("testProxy", 3)
    \o WaitFor(AtLeast("result", 1) \o AtLeast("result3", 1))
    \o Expect(Is("result", 1)) \o Expect(Is("result2", 0)) \o Expect(Is("result3", 1)),
    {"result", "result2", "result3"}, {"subStatus"}, {})]

(* Five listeners of three proxies on one connection are each told once.     *)
Five == <<"result1", "result11", "result2", "result22", "result3">>
AllFive(literal(_)) == FlattenSeq([i \in DOMAIN Five |-> literal(Five[i])])
CountingListener(r, proxy) == Subscribe(r, proxy, "BTestSelective", "set " \o r, "count " \o r)
MultipleSubscriptions == [
  Multiple_Subscriptions_SameConnection_CallErrorHandler |-> Fixture(
    Repeat(3, LAMBDA i : LET p == "my_proxy" \o ToString(i)
                         IN  Build(p, "selective", "blub") \o WaitForever(Up(p)))
    \o CountingListener("result1", "my_proxy1") \o Sleep \o CountingListener("result11", "my_proxy1")
    \o CountingListener("result2", "my_proxy2") \o CountingListener("result22", "my_proxy2")
    \o CountingListener("result3", "my_proxy3")
    \o WaitFor(AllFive(LAMBDA r : Is("status of " \o r, "SUCCESS")))
    \o AllFive(LAMBDA r : Require(Is("status of " \o r, "SUCCESS"))) \o Require(Is("counter", 5))
    \o testMethod("testProxy", 3)
    \o WaitFor(AllFive(LAMBDA r : Is(r, 1))) \o AllFive(LAMBDA r : Expect(Is(r, 1))),
    {"counter"} \cup ToSet(Five), {"status of " \o r : r \in ToSet(Five)},
    {"my_proxy1", "my_proxy2", "my_proxy3"})]

(* The stub fires in its hook, before any call: on subscription, and again   *)
(* when the service has returned and the proxy subscribes anew.              *)
AcceptedAndFired ==
  WaitFor(AtLeast("result", 1) \o In("subStatus", {"SUCCESS", "SUBSCRIPTION_REFUSED"}))
  \o Expect(Is("subStatus", "SUCCESS")) \o Expect(Is("result", 1))
FireWithinHook == [
  Fire_Selective_Within_Subscription_Changed_Hook |-> Fixture(
    testMethod("testProxy2", 5) \o SubscribeNew("first", "testProxy", "result", "subStatus")
    \o AcceptedAndFired
    \o Set("subStatus", "UNKNOWN") \o Set("result", 0)
    \o Unregister("selective") \o Pause \o Register("selective", "TestInterface") \o AcceptedAndFired,
    {"result"}, {"subStatus"}, {})]

(* Nobody waits here for the subscriptions before the event is fired: calls  *)
(* and subscriptions of one connection keep their order.  The subscription   *)
(* taken back is the other proxy's, whose number is that of the first's own. *)
Both == WaitFor(Is("result", 1) \o Is("result2", 1)) \o Require(Is("result", 1)) \o Require(Is("result2", 1))
AnotherProxy == Build("another_proxy", "selective", "client") \o Until(Up("another_proxy"))
OneResult == WaitFor(Is("result", 1)) \o Require(Is("result", 1))
ClearResults == Set("result", 0) \o Set("result2", 0)
TwoProxiesDeleteOne == [
  Two_proxies_subscribe_delete_one_proxy |-> Fixture(
    testMethod("testProxy", 4) \o Require(Is("callStatus", "SUCCESS"))
    \o SubscribeNew("first", "testProxy", "result", "subStatus")
    \o AnotherProxy \o SubscribeTo("another", "another_proxy", "result2", "subStatus")
    \o testMethod("testProxy", 3) \o Both \o ClearResults
    \o Drop("another_proxy") \o testMethod("testProxy", 3) \o OneResult \o ClearResults
    \o Unsubscribe("first")
    \o AnotherProxy \o SubscribeTo("another", "another_proxy", "result2", "subStatus")
    \o SubscribeNew("first", "testProxy", "result", "subStatus")
    \o testMethod("testProxy", 3) \o Both,
    {"result", "result2"}, {"subStatus"}, {"another_proxy"})]

(* Four listeners, three of them on one connection; the first proxy goes.    *)
AllAccepted ==
  WaitFor(Is("subStatus", "SUCCESS") \o Is("subStatus2", "SUCCESS") \o Is("subStatus3", "SUCCESS"))
  \o Require(Is("subStatus", "SUCCESS")) \o Require(Is("subStatus2", "SUCCESS"))
  \o Require(Is("subStatus3", "SUCCESS"))
ErrorListener == [
  Two_proxies_subscribe_delete_one_proxy_error_listener_test |-> Fixture(
    testMethod("testProxy", 4) \o Require(Is("callStatus", "SUCCESS"))
    \o SubscribeNew("first", "testProxy", "result", "subStatus")
    \o WaitFor(Is("subStatus", "SUCCESS")) \o Require(Is("subStatus", "SUCCESS"))
    \o Set("subStatus", "UNKNOWN") \o SubscribeTo("second", "testProxy2", "result", "subStatus2")
    \o Build("secondProxy", "selective", "client") \o Until(Up("secondProxy"))
    \o SubscribeNew("third", "secondProxy", "result", "subStatus")
    \o Build("thirdProxy", "selective", "client") \o Until(Up("thirdProxy"))
    \o SubscribeNew("fourth", "thirdProxy", "result", "subStatus3")
    \o Drop("testProxy") \o AllAccepted
    \o Set("subStatus", "UNKNOWN") \o Set("subStatus2", "UNKNOWN") \o Set("subStatus3", "UNKNOWN")
    \o Unregister("selective") \o Pause \o Register("selective", "TestInterface") \o AllAccepted,
    {"result", "result2"}, {"subStatus", "subStatus2", "subStatus3"}, {"secondProxy", "thirdProxy"})]

Tests ==
  SelectiveBroadcastRejected @@ SelectiveBroadcast @@ SelectiveMultiBroadcast @@ ProxyBuildAndDestroy
  @@ SelectiveRejectedMultiBroadcast @@ MultipleSubscriptions
  @@ FireWithinHook @@ TwoProxiesDeleteOne @@ ErrorListener
Routines == Callbacks @@ Stub
Suite == [tests |-> Tests, routines |-> Routines]
================================================================================
