----------------------------- MODULE AFManagedTests -----------------------------
(***************************************************************************)
(* The tests of managed interfaces (AFManaged.cpp) with the stubs they run *)
(* against.  A manager offers devices; its proxy tells when one comes or   *)
(* goes, and builds proxies to them.  The sets of available devices change *)
(* with their counters under the same lock, and the counters stand for     *)
(* both.  The connection's dispatching threads run the callbacks.          *)
(***************************************************************************)
EXTENDS TestScript

CONSTANTS
  Many,   \* bound: the proxies of one kind a test builds (20 in the code)
  Rounds  \* bound: how often a test removes and adds a device again (4 in the code)

deviceDetected(device) == RegisterManaged(device, "Device", "manager")
specialDeviceDetected  == RegisterManaged("special0", "SpecialDevice", "manager")
deviceRemoved(device)  == Unregister(device)
specialDeviceRemoved   == Unregister("special0")

SetUp ==
  Register("manager", "Manager") \o Build("testProxy", "manager", "client")
  \o Until(Up("testProxy"))

TearDown ==
  When(Exists("testProxy"),
       Unsubscribe("specialDevice") \o Unsubscribe("device") \o Unregister("manager")
       \o Until(Down("testProxy")))
  \o When(Exists("deviceProxy"), Until(Down("deviceProxy")))

subscribe ==
  SubscribeInstances("specialDevice", "testProxy", "SpecialDevice", "newSpecialDeviceAvailable")
  \o SubscribeInstances("device", "testProxy", "Device", "newDeviceAvailable")

members == [devices |-> 0, specialDevices |-> 0, succeeded |-> FALSE, asked |-> FALSE,
            availableCalled |-> FALSE, notAvailableCalled |-> FALSE,
            desired |-> 0, call |-> "UNKNOWN", innerCall |-> "UNKNOWN"]

(* A test with its fixture: locals are the variables of its body that a      *)
(* lambda captures, owned the proxies that go with the body.                 *)
Fixture(body, locals, owned) ==
  [code |-> SetUp \o body \o BodyEnd(DOMAIN locals, owned) \o TearDown \o End(DOMAIN members),
   vars |-> members @@ locals,
   unset |-> {}, conns |-> {"service", "client", "client2", "default"}]
Test(body) == Fixture(body, << >>, {})

Counting(count) == When(Arg("AVAILABLE"), Inc(count)) \o When(Arg("NOT_AVAILABLE"), Dec(count))

doSomething(proxy, status) ==
  Set(status, "UNKNOWN") \o Call(proxy, "doSomething", "", status) \o Require(Is(status, "SUCCESS"))

(* A device is announced: the callback builds a proxy in the middle of the    *)
(* notification, and waits in it until the proxy is available.                *)
BuildInNotification(connection) ==
  Require(About({"device1", "device2"}))
  \o When(Arg("AVAILABLE") \o Up("testProxy"),
          Build("deviceProxy", "device1", connection) \o WaitForever(Up("deviceProxy"))
          \o doSomething("deviceProxy", "innerCall") \o Set("succeeded", TRUE))
  \o When(Arg("NOT_AVAILABLE"), Set("succeeded", FALSE))

(* Mutant: the proxy is built on the connection whose thread waits for it. *)
newDeviceBuildProxyOnSame == BuildInNotification("client")
newDeviceBuildProxy == BuildInNotification("client2")

(* The callbacks of the fixture. *)
Callbacks == [
  newDeviceAvailable |-> Require(About({"device1", "device2"})) \o Counting("devices"),
  newSpecialDeviceAvailable |-> Require(About({"special0"})) \o Counting("specialDevices"),
  newDeviceBuildProxy |-> newDeviceBuildProxy,
  newDeviceBuildProxyAndSubscribe |->
    Require(About({"device1", "device2"}))
    \o When(Arg("AVAILABLE") \o Up("testProxy"),
            Build("deviceProxy", "device1", "default")
            \o SubscribeStatus("deviceStatus", "deviceProxy", "deviceStatusChanged"))
    \o When(Arg("NOT_AVAILABLE"), Set("succeeded", FALSE)),
  deviceStatusChanged |->
    When(Arg("AVAILABLE"), doSomething("deviceProxy", "innerCall") \o Set("succeeded", TRUE)),
  instanceAvailable |-> Require(Arg("AVAILABLE")) \o Set("availableCalled", TRUE),
  instanceNotAvailable |-> Require(Arg("NOT_AVAILABLE")) \o Set("notAvailableCalled", TRUE),
  availableSpecialDevices |->
    Require(ArgSame("desired")) \o When(AtLeast("desired", 1), Require(AtLeast("specialDevices", 1)))
    \o Set("asked", TRUE),
  availableDevices |->
    Require(ArgSame("desired")) \o When(AtLeast("desired", 1), Require(AtLeast("devices", 1)))
    \o Set("asked", TRUE)]

\* The methods of the stubs
Stubs == [
  doSomething |-> Reply,
  addDevice |-> deviceDetected("device1") \o Reply,
  removeDevice |-> deviceRemoved("device1") \o Reply]

Devices(n)        == Until(Is("devices", n))
SpecialDevices(n) == Until(Is("specialDevices", n))
NoDevices         == WaitFor(Is("devices", 0)) \o Require(AtMost("devices", 0))
NoSpecialDevices  == WaitFor(Is("specialDevices", 0)) \o Require(AtMost("specialDevices", 0))

AddRemoveOne == [
  AddRemoveManagedInterfaceSingle |-> Test(
    subscribe \o deviceDetected("device1") \o Devices(1) \o deviceRemoved("device1") \o Devices(0)),
  AddRemoveManagedInterfaceMultiple |-> Test(
    subscribe \o deviceDetected("device1") \o Devices(1) \o deviceDetected("device2") \o Devices(2)
    \o deviceRemoved("device1") \o Devices(1) \o deviceRemoved("device2") \o Devices(0)),
  AddRemoveMultipleManagedInterfacesSingle |-> Test(
    subscribe \o specialDeviceDetected \o SpecialDevices(1) \o deviceDetected("device1") \o Devices(1)
    \o specialDeviceRemoved \o SpecialDevices(0) \o deviceRemoved("device1") \o Devices(0))]

RemoveAll ==
  specialDeviceRemoved \o SpecialDevices(0) \o deviceRemoved("device1") \o Devices(1)
  \o deviceRemoved("device2") \o Devices(0)

AddRemoveMany == [
  AddRemoveMultipleManagedInterfacesMultiple |-> Test(
    subscribe \o specialDeviceDetected \o SpecialDevices(1) \o deviceDetected("device1") \o Devices(1)
    \o deviceDetected("device2") \o Devices(2) \o RemoveAll),
  AddRemoveMultipleManagedInterfacesMultipleProxyNotActive |-> Test(
    Drop("testProxy") \o specialDeviceDetected \o deviceDetected("device1")
    \o Build("testProxy", "manager", "client") \o Until(Up("testProxy")) \o subscribe
    \o SpecialDevices(1) \o Devices(1) \o deviceDetected("device2") \o Devices(2) \o RemoveAll)]

(* A proxy to a device, built through the manager and used once.             *)
UseDevice(wait) ==
  When(Up("testProxy"), Build("localProxy", "device1", "default") \o wait
                        \o doSomething("localProxy", "call"))

ThroughManagerSingle == [
  ProxyAddRemoveManagedInterfaceSingle |-> Test(
    subscribe \o Call("testProxy", "addDevice", 1, "call") \o Expect(Is("call", "SUCCESS"))
    \o Devices(1)
    \o Call("testProxy", "removeDevice", 1, "call") \o Expect(Is("call", "SUCCESS")) \o NoDevices),
  SingleDeregistrationExplicit |-> Fixture(
    subscribe \o deviceDetected("device1") \o Devices(1)
    \o UseDevice(WaitFor(Up("localProxy")) \o Expect(Up("localProxy")))
    \o Drop("localProxy") \o deviceRemoved("device1") \o NoDevices, << >>, {"localProxy"}),
  SingleDeregistrationExplicitAll |-> Fixture(
    subscribe \o deviceDetected("device1") \o Devices(1) \o UseDevice(WaitForever(Up("localProxy")))
    \o Drop("localProxy") \o UnregisterManaged("manager") \o NoDevices, << >>, {"localProxy"})]

DeviceProxies  == <<"special0", "device1", "device2">>
ProxyOf(i, device) == device \o "." \o ToString(i)
BuiltProxies   == {ProxyOf(i, device) : i \in 1 .. Many, device \in ToSet(DeviceProxies)}
BuildEach(i)   == FlattenSeq([k \in DOMAIN DeviceProxies |->
                    Build(ProxyOf(i, DeviceProxies[k]), DeviceProxies[k], "default")])
UseOnce(proxy) == WaitBriefly(Up(proxy)) \o Require(Up(proxy)) \o doSomething(proxy, "call")
UseEach ==
  Repeat(Many, LAMBDA i : UseOnce(ProxyOf(i, "device1")) \o UseOnce(ProxyOf(i, "device2")))
  \o Repeat(Many, LAMBDA i : UseOnce(ProxyOf(i, "special0")))

(* Many proxies to all three devices, each used once. *)
UseDevices ==
  subscribe \o specialDeviceDetected \o SpecialDevices(1)
  \o deviceDetected("device1") \o Pause \o deviceDetected("device2") \o Devices(2)
  \o When(Up("testProxy"), Repeat(Many, BuildEach)) \o UseEach
NothingLeft ==
  WaitFor(Is("devices", 0) \o Is("specialDevices", 0))
  \o Require(AtMost("devices", 0)) \o Require(AtMost("specialDevices", 0))

ThroughManagerMultiple == [
  SingleDeregistrationImplicit |-> Fixture(
    subscribe \o deviceDetected("device1") \o Devices(1) \o UseDevice(Until(Up("localProxy"))),
    << >>, {"localProxy"}),
  MultipleDeregistrationExplicit |-> Fixture(
    UseDevices \o Pause \o specialDeviceRemoved \o deviceRemoved("device1")
    \o deviceRemoved("device2") \o NothingLeft, << >>, BuiltProxies)]

ThroughManagerImplicit == [
  MultipleDeregistrationExplicitAll |-> Fixture(
    UseDevices \o Pause \o UnregisterManaged("manager") \o NothingLeft, << >>, BuiltProxies),
  MultipleDeregistrationImplicit |-> Fixture(UseDevices, << >>, BuiltProxies)]

InEvent(cb, rounds) ==
  subscribe \o SubscribeInstances("second", "testProxy", "Device", cb)
  \o Repeat(rounds, LAMBDA i :
       deviceDetected("device1") \o WaitFor(Is("devices", 1) \o Is("succeeded", TRUE))
       \o Require(Is("devices", 1)) \o Require(Is("succeeded", TRUE))
       \o deviceRemoved("device1") \o NoDevices \o Drop("deviceProxy"))

InAvailabilityEvent == [
  InAvailabilityEventAndMethodCall |-> Test(InEvent("newDeviceBuildProxy", 1)),
  MethodCallInProxyStatusEvent |-> Test(InEvent("newDeviceBuildProxyAndSubscribe", Rounds))]

(* The manager's proxy is deleted in the callback that tells it is gone, and  *)
(* service, proxy and subscriptions are made again.                           *)
DeleteManagerProxyInsideProxyStatusEvent == [
  DeleteManagerProxyInsideProxyStatusEventCallbackAndMethodCall |-> Fixture(
    SubscribeStatus("managerStatus", "testProxy", "deleteManagerProxy") \o subscribe
    \o specialDeviceDetected \o SpecialDevices(1) \o deviceDetected("device1") \o Devices(1)
    \o Unregister("manager") \o Until(Is("managerProxyDeleted", TRUE))
    \o SetUp \o subscribe \o Set("devices", 0) \o deviceDetected("device1") \o Devices(1)
    \o Build("deviceProxy", "device1", "client2") \o Until(Up("deviceProxy"))
    \o doSomething("deviceProxy", "call"),
    [managerProxyDeleted |-> FALSE], {})]
deleteManagerProxy ==
  When(Arg("NOT_AVAILABLE"), Drop("testProxy") \o Set("managerProxyDeleted", TRUE))

--------------------------------------------------------------------------------
\* What the manager's proxy can be asked
Present(devices, n) == Require(Instances("manager", devices, n))
CheckEach(S) == FlattenSeq(SetToSeq({Require(Offered(s)) : s \in S}))

NonPrimitiveMethodsSync == [
  ProxyManagerTestNonPrimitiveMethodsSync |-> Test(
    subscribe
    \o specialDeviceDetected \o SpecialDevices(1)
    \o Present("SpecialDevice", 1) \o CheckEach({"special0"})
    \o deviceDetected("device1") \o Devices(1) \o Present("Device", 1) \o CheckEach({"device1"})
    \o deviceDetected("device2") \o Devices(2)
    \o Present("Device", 2) \o CheckEach({"device1", "device2"})
    \o specialDeviceRemoved \o NoSpecialDevices \o Present("SpecialDevice", 0)
    \o deviceRemoved("device1") \o Devices(1) \o Present("Device", 1) \o CheckEach({"device2"})
    \o deviceRemoved("device2") \o NoDevices \o Present("Device", 0))]

AskFor(devices, cb, n) ==
  Set("desired", n) \o Set("asked", FALSE) \o AskInstances("testProxy", devices, cb)
  \o Until(Is("asked", TRUE))
AskDevices(n)  == AskFor("Device", "availableDevices", n)
AskSpecial(n)  == AskFor("SpecialDevice", "availableSpecialDevices", n)

NonPrimitiveMethodsAsync == [
  ProxyManagerTestNonPrimitiveMethodsAsync |-> Test(
    subscribe
    \o specialDeviceDetected \o SpecialDevices(1) \o AskSpecial(1)
    \o deviceDetected("device1") \o Devices(1) \o AskDevices(1)
    \o deviceDetected("device2") \o Devices(2) \o AskDevices(2)
    \o specialDeviceRemoved \o NoSpecialDevices \o AskSpecial(0)
    \o deviceRemoved("device1") \o Devices(1) \o AskDevices(1)
    \o deviceRemoved("device2") \o NoDevices \o AskDevices(0))]

AskAvailable(device) ==
  AskStatus("testProxy", device, "instanceAvailable") \o Until(Is("availableCalled", TRUE))
  \o Set("availableCalled", FALSE)
AskNotAvailable(device) ==
  AskStatus("testProxy", device, "instanceNotAvailable") \o Until(Is("notAvailableCalled", TRUE))

AskWhenDetected ==
  specialDeviceDetected \o SpecialDevices(1) \o Present("SpecialDevice", 1)
  \o Set("availableCalled", FALSE) \o AskAvailable("special0")
  \o deviceDetected("device1") \o Devices(1) \o Present("Device", 1) \o AskAvailable("device1")
  \o deviceDetected("device2") \o Devices(2) \o Present("Device", 2)
  \o AskAvailable("device1") \o AskAvailable("device2")
AskWhenRemoved ==
  Set("notAvailableCalled", FALSE)
  \o specialDeviceRemoved \o NoSpecialDevices \o Present("SpecialDevice", 0)
  \o AskNotAvailable("special0") \o Set("notAvailableCalled", FALSE)
  \o deviceRemoved("device1") \o Devices(1) \o Present("Device", 1)
  \o AskNotAvailable("device1") \o AskAvailable("device2")
  \o Set("notAvailableCalled", FALSE)
  \o deviceRemoved("device2") \o NoDevices \o Present("Device", 0) \o AskNotAvailable("device2")

GetInstanceAvailabilityStatusAsync == [
  ProxyManagerTestGetInstanceAvailabilityStatusAsync |->
    Test(subscribe \o AskWhenDetected \o AskWhenRemoved)]

--------------------------------------------------------------------------------
\* A manager under a manager
BuildInThread(thread) == Spawn(thread, thread) \o WaitForever(Is(thread, TRUE)) \o Join(thread)
BuildAndWait(proxy, svc, thread) ==
  Build(proxy, svc, "client") \o WaitForever(Up(proxy)) \o Set(thread, TRUE)
Hierarchical == [
  h_t1 |-> BuildAndWait("topProxy", "top", "h_t1"),
  h2_t1 |-> BuildAndWait("middleProxy", "middle", "h2_t1"),
  h3_t1 |-> BuildAndWait("bottomProxy", "bottom", "h3_t1"),
  middleAvailable |-> Require(About({"middle"})) \o Counting("middles"),
  bottomAvailable |-> Require(About({"bottom"})) \o Counting("bottoms")]

RemoveHierarchical ==
  Unregister("bottom") \o WaitFor(Never) \o Require(AtMost("bottoms", 0))
  \o Unregister("middle") \o WaitFor(Never) \o Require(AtMost("middles", 0))
  \o Unsubscribe("middleSubscription") \o Unsubscribe("topSubscription") \o Unregister("top")
  \o Until(Down("bottomProxy")) \o Until(Down("middleProxy")) \o Until(Down("topProxy"))

AddRemoveHierarchical == [
  AddRemoveHierarchicalManagedInterface |-> Fixture(
    Register("top", "Top") \o BuildInThread("h_t1") \o Require(Up("topProxy"))
    \o SubscribeInstances("topSubscription", "topProxy", "Middle", "middleAvailable")
    \o RegisterManaged("middle", "Middle", "top") \o Until(Is("middles", 1))
    \o BuildInThread("h2_t1") \o Require(Up("middleProxy"))
    \o SubscribeInstances("middleSubscription", "middleProxy", "Bottom", "bottomAvailable")
    \o RegisterManaged("bottom", "Bottom", "middle") \o Until(Is("bottoms", 1))
    \o BuildInThread("h3_t1") \o Require(Up("bottomProxy"))
    \o Require(Instances("top", "Middle", 1)) \o Require(Instances("middle", "Bottom", 1))
    \o RemoveHierarchical,
    [middles |-> 0, bottoms |-> 0, h_t1 |-> FALSE, h2_t1 |-> FALSE, h3_t1 |-> FALSE], {})]

(* p1 and p2 are promises: a second set_value() throws. *)
Fulfil(promise) == Expect(Is(promise, FALSE)) \o Set(promise, TRUE)
OtherProxies == [
  GetAvailableInstancesWithoutSubscribe |-> Fixture(
    deviceDetected("device1") \o deviceDetected("device2") \o Pause
    \o Until(Instances("manager", "Device", 2))
    \o specialDeviceDetected \o Pause \o Until(Instances("manager", "SpecialDevice", 1))
    \o AskInstances("testProxy", "SpecialDevice", "instancesAsyncCallback")
    \o WaitFor(Is("statusAsync", "SUCCESS")) \o Pause \o Expect(Is("instancesAsync", 1)),
    [statusAsync |-> "UNKNOWN", instancesAsync |-> 0], {}),
  CreateProxyToManagerInSameProcess |-> Fixture(
    Build("testProxy2", "manager", "service")
    \o SubscribeStatus("status2", "testProxy2", "fulfilP1")
    \o SubscribeStatus("status", "testProxy", "fulfilP2")
    \o Until(Up("testProxy2")) \o Until(Up("testProxy"))
    \o WaitFor(Is("p1", TRUE)) \o Expect(Is("p1", TRUE))
    \o WaitFor(Is("p2", TRUE)) \o Expect(Is("p2", TRUE)),
    [p1 |-> FALSE, p2 |-> FALSE], {"testProxy2"})]
(* Mutant: the callback does not look at the status. *)
OtherCallbacksAnyStatus == [
  instancesAsyncCallback |->
    Set("statusAsync", "SUCCESS") \o Require(Arg(1)) \o SetArg("instancesAsync"),
  fulfilP1 |-> When(Arg("AVAILABLE"), Fulfil("p1")), fulfilP2 |-> Fulfil("p2")]
OtherCallbacks == [
  instancesAsyncCallback |->
    Set("statusAsync", "SUCCESS") \o Require(Arg(1)) \o SetArg("instancesAsync"),
  fulfilP1 |-> When(Arg("AVAILABLE"), Fulfil("p1")),
  fulfilP2 |-> When(Arg("AVAILABLE"), Fulfil("p2"))]

Tests ==
  AddRemoveOne @@ AddRemoveMany @@ ThroughManagerSingle @@ ThroughManagerMultiple
  @@ ThroughManagerImplicit @@ InAvailabilityEvent @@ DeleteManagerProxyInsideProxyStatusEvent
  @@ NonPrimitiveMethodsSync @@ NonPrimitiveMethodsAsync @@ GetInstanceAvailabilityStatusAsync
  @@ AddRemoveHierarchical @@ OtherProxies
Routines ==
  Callbacks @@ Stubs @@ Hierarchical @@ OtherCallbacks @@ [deleteManagerProxy |-> deleteManagerProxy]
Suite == [tests |-> Tests, routines |-> Routines]
================================================================================
