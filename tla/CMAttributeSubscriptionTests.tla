----------------------- MODULE CMAttributeSubscriptionTests -----------------------
(***************************************************************************)
(* The tests of subscriptions to attributes (CMAttributeSubscription.cpp). *)
(* The stub lives in the tests' process and its attributes are set by the  *)
(* test's thread, while the connections' threads run the callbacks of the  *)
(* handlers, most of which are locals of the tests' bodies.                *)
(***************************************************************************)
EXTENDS TestScript

CONSTANTS
  Values,  \* bound: the values SubscriptionStandard sets (10 in the code)
  Threads, \* bound: the threads that subscribe at the same time (10 in the code)
  Returns  \* bound: how often the service goes and returns in a loop (16 in the code)

--------------------------------------------------------------------------------
\* class SubscriptionHandler: h.attr the value it received last, h.queue all of
\* them, h.status and h.calls what the status listener was told and how often
HandlerVars(h) ==
  (h \o ".attr" :> 0) @@ (h \o ".queue" :> <<>>) @@ (h \o ".status" :> "UNKNOWN")
  @@ (h \o ".calls" :> 0) @@ (h \o ".started" :> FALSE) @@ (h \o ".available" :> "UNKNOWN")

startSubscribe(h, proxy, tellStarted) ==
  When(Is(h \o ".started", FALSE),
       Subscribe(h, proxy, "testAttribute", h \o ".myCallback", h \o ".onStatus")
       \o Set(h \o ".started", TRUE) \o tellStarted)
cancelSubscribe(h) ==
  When(Is(h \o ".started", TRUE), Unsubscribe(h) \o Set(h \o ".started", FALSE))

(* Value 99 makes the handler unsubscribe in the middle of its notification. *)
SubscriptionHandler(h, proxy, tellStarted) ==
  (h \o ".myCallback" :>
     SetArg(h \o ".attr") \o Push(h \o ".queue") \o When(Arg(99), cancelSubscribe(h)))
  @@ (h \o ".onStatus" :> Inc(h \o ".calls") \o SetArg(h \o ".status"))
  @@ (h \o ".receiveServiceAvailable" :>
        SetArg(h \o ".available")
        \o When(Arg("AVAILABLE"), startSubscribe(h, proxy, tellStarted))
        \o When(Arg("NOT_AVAILABLE"), cancelSubscribe(h)))

Reaches(v, x) == WaitFor(Is(v, x)) \o When(Is(v, x), Pause)  \* the wait_... functions
Receives(v, x) == Reaches(v, x) \o Expect(Is(v, x))
Stays(v, x)   == Pause \o Expect(Is(v, x))

\* SubscribeUnsubscribeHandler and ThreeCallbackHandler
TwoVars == [ok |-> 0, notOk |-> 0]
okCallback == SetArg("ok")
notOkCallback == SetArg("notOk")
ThreeVars == [n1 |-> 0, n2 |-> 0, n3 |-> 0, v1 |-> 0, v2 |-> 0, v3 |-> 0]
callback(n, v) == Inc(n) \o SetArg(v)
waitCallbacks ==
  LET all == AtLeast("n1", 1) \o AtLeast("n2", 1) \o AtLeast("n3", 1)
  IN  WaitFor(all) \o When(all, Pause)

(* The function of a thread: its handler dies with it, unsubscribed from the *)
(* status of the proxy but not from the attribute.                           *)
T(n) == "thread" \o ToString(n)
Succeeded(v) == WaitFor(Is(v, "SUCCESS")) \o Expect(Is(v, "SUCCESS"))
testSubscription(h) ==
  SubscribeStatus(h \o ".availability", "proxy", h \o ".receiveServiceAvailable")
  \o Set(h \o ".statusPromise", TRUE)
  \o Succeeded(h \o ".status") \o Succeeded(h \o ".status")
  \o WaitFor(AtLeast(h \o ".attr", 1) \o Is(h \o ".available", "AVAILABLE"))
  \o Expect(AtLeast(h \o ".attr", 1)) \o Expect(Is(h \o ".calls", 1))
  \o Unsubscribe(h \o ".availability") \o PushVar("data_queue", h \o ".attr")
  \o BlockEnd(DOMAIN HandlerVars(h), {})

(* set_value() on a promise that is fulfilled would throw.                   *)
Fulfil(promise) == Expect(Is(promise, FALSE)) \o Set(promise, TRUE)

SetUp == Build("proxy", "service", "client")
TearDown ==
  When(Is("deregisterService", TRUE), Unregister("service"))
  \o Require(Exists("proxy")) \o WaitFor(Down("proxy")) \o Require(Down("proxy"))

Fixture(body, locals, unset, owned) ==
  [code |-> SetUp \o body \o BodyEnd(DOMAIN locals \cup unset, owned) \o TearDown \o End({}),
   vars |-> locals @@ [testAttribute |-> 0, testD |-> 0, deregisterService |-> FALSE],
   unset |-> unset, conns |-> {"service", "client"}]

Deregister(yes) == Set("deregisterService", yes)
RegisterService == Register("service", "TestInterface")
UnregisterService == Unregister("service")
Start == RegisterService \o Until(Up("proxy"))
Stop  == UnregisterService \o Deregister(FALSE)
setTestAttribute(x) == SetAttribute("service", "testAttribute", x)
setTestD(x)         == SetAttribute("service", "testD", x)
On(key, proxy, cb, status) == Subscribe(key, proxy, "testAttribute", cb, status)
Unknown == [subStatus |-> "UNKNOWN"]

SubscriptionStandard == [
  SubscriptionStandard |-> Fixture(
    Deregister(TRUE) \o setTestAttribute(33) \o Start
    \o On("listener", "proxy", "h.myCallback", "setStatus") \o Succeeded("subStatus")
    \o Repeat(Values, LAMBDA i : Pause \o setTestAttribute(i))
    \o WaitFor(Size("h.queue", Values + 1)) \o Require(Size("h.queue", Values + 1))
    \o Expect(Is("h.queue", <<33>> \o [i \in 1 .. Values |-> i]))
    \o Unsubscribe("listener") \o UnregisterService \o Pause \o Deregister(FALSE),
    HandlerVars("h") @@ Unknown, {}, {})]

SubscriptionOnAvailable == [
  SubscriptionOnAvailable |-> Fixture(
    SubscribeStatus("availability", "proxy", "h.receiveServiceAvailable")
    \o setTestAttribute(1) \o Stays("h.attr", 0)
    \o Start \o Succeeded("h.status") \o setTestAttribute(2)
    \o Reaches("h.attr", 2) \o Require(Is("h.attr", 2))
    \o UnregisterService \o Pause \o Require(Is("h.available", "NOT_AVAILABLE"))
    \o setTestAttribute(3) \o Pause \o Require(Is("h.attr", 2)) \o Expect(Is("h.calls", 1)),
    HandlerVars("h"), {}, {})]

(* The test takes as many values from the queue as there are threads; a wait *)
(* in vain leaves it the value it had.                                       *)
SubscriptionMultithreading == [
  SubscriptionMultithreading |-> Fixture(
    Repeat(Threads, LAMBDA n : Spawn(T(n), T(n))) \o RegisterService
    \o Repeat(Threads, LAMBDA n : Until(Is(T(n) \o ".statusPromise", TRUE))
                                  \o Until(Is(T(n) \o ".attributePromise", TRUE)))
    \o Pause \o setTestAttribute(1) \o Pause \o UnregisterService
    \o Repeat(Threads, LAMBDA n : WaitFor(NonEmpty("data_queue"))
                                  \o When(NonEmpty("data_queue"), Pop("data_queue", "data"))
                                  \o Expect(Is("data", 1)))
    \o Repeat(Threads, LAMBDA n : Join(T(n))),
    FoldSet(LAMBDA n, vars : vars @@ HandlerVars(T(n)) @@ (T(n) \o ".statusPromise" :> FALSE)
                             @@ (T(n) \o ".attributePromise" :> FALSE),
            [data |-> 0, data_queue |-> <<>>], 1 .. Threads), {}, {})]

SubscriptionUnsubscribeFromCallback == [
  SubscriptionUnsubscribeFromCallback |-> Fixture(
    Start \o startSubscribe("h", "proxy", <<>>) \o Succeeded("h.status")
    \o setTestAttribute(42) \o Receives("h.attr", 42) \o setTestAttribute(99) \o Receives("h.attr", 99)
    \o setTestAttribute(250) \o Stays("h.attr", 99) \o UnregisterService,
    HandlerVars("h"), {}, {})]

\* Two callbacks
Expects(x, y) == Expect(Is("ok", x)) \o Expect(Is("notOk", y))
SubscribeAndUnsubscribeTwoCallbacksCoexistent == [
  SubscribeAndUnsubscribeTwoCallbacksCoexistent |-> Fixture(
    On("ok", "proxy", "okCallback", "setStatus1") \o On("notOk", "proxy", "notOkCallback", "setStatus2")
    \o setTestAttribute(1) \o Pause \o Expects(0, 0)
    \o Start \o Succeeded("subStatus1") \o Succeeded("subStatus2")
    \o setTestAttribute(2) \o Reaches("ok", 2) \o Reaches("notOk", 2) \o Expects(2, 2)
    \o Unsubscribe("ok") \o Unsubscribe("notOk")
    \o setTestAttribute(3) \o Pause \o Expects(2, 2) \o UnregisterService,
    TwoVars, {"subStatus1", "subStatus2"}, {})]

(* Nobody waits for these subscriptions to be accepted.                      *)
SubscribeAndUnsubscribeSequentially == [
  SubscribeAndUnsubscribeSequentially |-> Fixture(
    Start \o On("ok", "proxy", "okCallback", "") \o On("notOk", "proxy", "notOkCallback", "")
    \o setTestAttribute(12) \o Reaches("ok", 12) \o Reaches("notOk", 12) \o Expects(12, 12)
    \o Unsubscribe("ok") \o setTestAttribute(14) \o Reaches("notOk", 14) \o Expects(12, 14)
    \o Unsubscribe("notOk") \o setTestAttribute(16) \o Pause \o Expects(12, 14) \o UnregisterService,
    TwoVars, {}, {})]

(* Disabled in the code: a new proxy takes the place of the old one, whose   *)
(* listeners go with it.                                                     *)
ImplicitWithNewProxy == [
  DISABLED_SubscribeAndUnsubscribeImplicitWithCreatingNewProxyWithReassigning |-> Fixture(
    Start \o On("ok", "proxy", "okCallback", "setStatus1") \o Succeeded("subStatus1")
    \o On("notOk", "proxy", "notOkCallback", "")
    \o setTestAttribute(12) \o Reaches("ok", 12) \o Reaches("notOk", 12) \o Expects(12, 12)
    \o Drop("proxy") \o Build("proxy", "service", "client") \o Until(Up("proxy"))
    \o On("notOk", "proxy", "notOkCallback", "setStatus2") \o Succeeded("subStatus2")
    \o setTestAttribute(14) \o Reaches("notOk", 14) \o Expects(12, 14)
    \o Unsubscribe("notOk") \o setTestAttribute(16) \o Pause \o Expects(12, 14) \o UnregisterService,
    TwoVars, {"subStatus1", "subStatus2"}, {})]

SubscribeAndUnsubscribeUnsubscribe == [
  SubscribeAndUnsubscribeUnsubscribe |-> Fixture(
    setTestAttribute(42) \o Start
    \o On("listener", "proxy", "h.myCallback", "setStatus") \o Succeeded("subStatus")
    \o Receives("h.attr", 42) \o setTestAttribute(12) \o Receives("h.attr", 12)
    \o Unsubscribe("listener") \o setTestAttribute(24) \o Stays("h.attr", 12)
    \o Unsubscribe("listener") \o setTestAttribute(26) \o Stays("h.attr", 12) \o UnregisterService,
    HandlerVars("h") @@ Unknown, {}, {})]

SubscribeServiceNotAvailable == [
  SubscribeServiceNotAvailable |-> Fixture(
    Deregister(TRUE) \o setTestAttribute(33)
    \o On("listener", "proxy", "h.myCallback", "setStatus") \o Stays("h.attr", 0)
    \o Start \o Succeeded("subStatus") \o Receives("h.attr", 33)
    \o setTestAttribute(123) \o Receives("h.attr", 123) \o Unsubscribe("listener") \o Stop,
    HandlerVars("h"), {"subStatus"}, {})]

--------------------------------------------------------------------------------
(* The service goes and returns.  In the loop a second listener is declared  *)
(* that hides the first: only the first is ever unsubscribed, and each round *)
(* leaves a listener behind whose status variable is out of scope.           *)
Round(i) ==
  LET inner == "round" \o ToString(i) \o ".subStatus"
  IN  Set("h.attr", 0) \o UnregisterService \o Pause \o Unsubscribe("listener") \o Pause
      \o RegisterService
      \o On(T(i), "proxy", "h.myCallback", "set " \o inner) \o Succeeded(inner)
      \o Receives("h.attr", 198) \o BlockEnd({inner}, {})
RoundVars == [v \in {"round" \o ToString(i) \o ".subStatus" : i \in 1 .. Returns} |-> "UNKNOWN"]
SubscribeUnregisterSetValueRegisterService == [
  SubscribeUnregisterSetValueRegisterService |-> Fixture(
    Deregister(TRUE) \o Start
    \o On("listener", "proxy", "h.myCallback", "setStatus") \o Succeeded("subStatus")
    \o setTestAttribute(35) \o Receives("h.attr", 35)
    \o Stop \o setTestAttribute(43) \o Stays("h.attr", 35)
    \o RegisterService \o Receives("h.attr", 43) \o setTestAttribute(198) \o Receives("h.attr", 198)
    \o Build("tempProxy", "service", "service")
    \o Repeat(Returns, Round) \o Unsubscribe("listener") \o Stop,
    HandlerVars("h") @@ Unknown @@ RoundVars, {}, {"tempProxy"})]

SubscribeUnregisterNoValueSetRegisterService == [
  SubscribeUnregisterNoValueSetRegisterService |-> Fixture(
    Deregister(TRUE) \o Start
    \o On("listener", "proxy", "h.myCallback", "setStatus") \o Succeeded("subStatus")
    \o setTestAttribute(35) \o Receives("h.attr", 35)
    \o UnregisterService \o Pause \o Set("h.attr", 0) \o Expect(Is("h.attr", 0)) \o Pause
    \o RegisterService \o Receives("h.attr", 35)
    \o setTestAttribute(43) \o Receives("h.attr", 43) \o Unsubscribe("listener") \o Stop,
    HandlerVars("h") @@ Unknown, {}, {})]

SubscribeSecondProxyLater == [
  SubscribeSecondProxyLater |-> Fixture(
    Deregister(TRUE) \o setTestAttribute(33)
    \o On("listener", "proxy", "h.myCallback", "setStatus")
    \o Start \o Succeeded("subStatus") \o Receives("h.attr", 33)
    \o Build("secondProxy", "service", "client") \o Set("subStatus", "UNKNOWN")
    \o On("second", "secondProxy", "b.myCallback", "setStatus") \o Succeeded("subStatus")
    \o Receives("b.attr", 33) \o setTestAttribute(123) \o Reaches("h.attr", 123)
    \o Receives("b.attr", 123) \o Expect(Is("h.attr", 123))
    \o Unsubscribe("listener") \o Unsubscribe("second") \o Stop,
    HandlerVars("h") @@ HandlerVars("b"), {"subStatus"}, {"secondProxy"})]

\* Three callbacks are called once each, with the value the attribute has
OnThree(n) == On("listener" \o n, "proxy", "callback_" \o n, "setStatus" \o n)
AllCalledOnce(value) ==
  waitCallbacks
  \o Expect(Is("n1", 1)) \o Expect(Is("n2", 1)) \o Expect(Is("n3", 1))
  \o Expect(Is("v1", value)) \o Expect(Is("v2", value)) \o Expect(Is("v3", value))
  \o Unsubscribe("listener1") \o Unsubscribe("listener2") \o Unsubscribe("listener3") \o Stop

SubscribeThreeCallbacksServiceNotAvailable == [
  SubscribeThreeCallbacksServiceNotAvailable |-> Fixture(
    Deregister(TRUE) \o setTestAttribute(33)
    \o OnThree("1") \o Pause \o OnThree("2") \o Pause \o OnThree("3")
    \o Start \o Succeeded("subStatus1") \o Succeeded("subStatus2") \o Succeeded("subStatus3")
    \o AllCalledOnce(33),
    ThreeVars, {"subStatus1", "subStatus2", "subStatus3"}, {})]

SubscribeThreeCallbacksServiceAvailable == [
  SubscribeThreeCallbacksServiceAvailable |-> Fixture(
    Deregister(TRUE) \o setTestAttribute(35) \o Pause \o Start
    \o OnThree("1") \o Succeeded("subStatus1") \o Pause \o OnThree("2") \o Succeeded("subStatus2")
    \o Pause \o OnThree("3") \o Succeeded("subStatus3") \o AllCalledOnce(35),
    ThreeVars @@ [v \in {"subStatus1", "subStatus2", "subStatus3"} |-> "UNKNOWN"], {}, {})]

SubscribeAndUnsubscribeAndReSubscribe == [
  SubscribeAndUnsubscribeAndReSubscribe |-> Fixture(
    setTestAttribute(42) \o Start
    \o On("listener", "proxy", "h.myCallback", "setStatus") \o Succeeded("subStatus")
    \o Receives("h.attr", 42) \o setTestAttribute(12) \o Receives("h.attr", 12)
    \o Unsubscribe("listener") \o Set("h.attr", 0) \o Expect(Is("h.attr", 0))
    \o Set("subStatus", "UNKNOWN") \o On("listener", "proxy", "h.myCallback", "setStatus")
    \o Succeeded("subStatus") \o Receives("h.attr", 12) \o UnregisterService,
    HandlerVars("h") @@ Unknown, {}, {})]

--------------------------------------------------------------------------------
\* Two proxies, each with a handler: for the same attribute or for two of them
TwoHandlers == HandlerVars("h") @@ HandlerVars("b") @@ Unknown @@ [subStatus2 |-> "UNKNOWN"]
ListenA == On("listener", "proxy", "h.myCallback", "setStatus") \o Succeeded("subStatus")
ListenB(attribute) ==
  Subscribe("listenerB", "proxyB", attribute, "b.myCallback", "setStatus2") \o Succeeded("subStatus2")
BothExpect(x) == Expect(Is("h.attr", x)) \o Expect(Is("b.attr", x))
BothReach(x)  == Reaches("h.attr", x) \o Reaches("b.attr", x) \o BothExpect(x)
BothListen(attribute) ==
  Start \o Build("proxyB", "service", "client")
  \o ListenA \o Reaches("h.attr", 42) \o ListenB(attribute) \o Reaches("b.attr", 42) \o BothExpect(42)
BothUnsubscribe ==
  Unsubscribe("listener") \o Unsubscribe("listenerB")
  \o Set("h.attr", 0) \o Expect(Is("h.attr", 0)) \o Set("b.attr", 0) \o Expect(Is("b.attr", 0))

SubscribeMultipleProxysUnsubscribeAllResubscribe == [
  SubscribeMultipleProxysUnsubscribeAllResubscribe |-> Fixture(
    setTestAttribute(42) \o BothListen("testAttribute") \o setTestAttribute(12) \o BothReach(12)
    \o BothUnsubscribe
    \o On("listener", "proxy", "h.myCallback", "") \o Receives("h.attr", 12)
    \o On("listener2", "proxyB", "b.myCallback", "") \o Receives("b.attr", 12) \o UnregisterService,
    TwoHandlers, {}, {"proxyB"})]

SubscribeMultipleProxysUnsubscribeAllResubscribeSameEventgroup == [
  SubscribeMultipleProxysUnsubscribeAllResubscribeSameEventgroup |-> Fixture(
    setTestAttribute(42) \o setTestD(42) \o BothListen("testD")
    \o setTestAttribute(12) \o setTestD(12) \o BothReach(12) \o BothUnsubscribe
    \o Set("subStatus", "UNKNOWN") \o Set("subStatus2", "UNKNOWN")
    \o ListenA \o Receives("h.attr", 12) \o ListenB("testD") \o Receives("b.attr", 12)
    \o UnregisterService,
    TwoHandlers, {}, {"proxyB"})]

SubscribeMultipleProxysUnsubscribeOneResubscribeSameEventgroup == [
  SubscribeMultipleProxysUnsubscribeOneResubscribeSameEventgroup |-> Fixture(
    setTestAttribute(42) \o setTestD(42) \o BothListen("testD")
    \o setTestAttribute(12) \o setTestD(12) \o BothReach(12)
    \o Unsubscribe("listenerB") \o setTestAttribute(14) \o Receives("h.attr", 14)
    \o Expect(Is("b.attr", 12)) \o Set("h.attr", 0) \o Expect(Is("h.attr", 0)) \o UnregisterService,
    TwoHandlers, {}, {"proxyB"})]

--------------------------------------------------------------------------------
Tests ==
  SubscriptionStandard @@ SubscriptionOnAvailable @@ SubscriptionMultithreading
  @@ SubscriptionUnsubscribeFromCallback @@ SubscribeAndUnsubscribeTwoCallbacksCoexistent
  @@ SubscribeAndUnsubscribeSequentially @@ ImplicitWithNewProxy @@ SubscribeAndUnsubscribeUnsubscribe
  @@ SubscribeServiceNotAvailable @@ SubscribeUnregisterSetValueRegisterService
  @@ SubscribeUnregisterNoValueSetRegisterService
  @@ SubscribeSecondProxyLater @@ SubscribeThreeCallbacksServiceNotAvailable
  @@ SubscribeThreeCallbacksServiceAvailable @@ SubscribeAndUnsubscribeAndReSubscribe
  @@ SubscribeMultipleProxysUnsubscribeAllResubscribe
  @@ SubscribeMultipleProxysUnsubscribeAllResubscribeSameEventgroup
  @@ SubscribeMultipleProxysUnsubscribeOneResubscribeSameEventgroup
Routines ==
  SubscriptionHandler("h", "proxy", <<>>) @@ SubscriptionHandler("b", "proxyB", <<>>)
  @@ FoldSet(LAMBDA n, all :
               all @@ SubscriptionHandler(T(n), "proxy", Fulfil(T(n) \o ".attributePromise"))
                   @@ (T(n) :> testSubscription(T(n))), << >>, 1 .. Threads)
  @@ [okCallback |-> okCallback, notOkCallback |-> notOkCallback,
      callback_1 |-> callback("n1", "v1"), callback_2 |-> callback("n2", "v2"),
      callback_3 |-> callback("n3", "v3"), setStatus |-> SetArg("subStatus"),
      setStatus1 |-> SetArg("subStatus1"), setStatus2 |-> SetArg("subStatus2"),
      setStatus3 |-> SetArg("subStatus3")]
  @@ FoldSet(LAMBDA v, all : all @@ ("set " \o v :> SetArg(v)), << >>, DOMAIN RoundVars)
Suite == [tests |-> Tests, routines |-> Routines]
==================================================================================
