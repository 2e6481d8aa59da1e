-------------------------- MODULE MCVerificationTests --------------------------
(* TestBed with the tests of the files it has a script of. *)
EXTENDS TestBed
AFManaged == INSTANCE AFManagedTests WITH Many <- 4, Rounds <- 4
AFSelective == INSTANCE AFSelectiveTests
CMBroadcasts == INSTANCE CMBroadcastsTests
CMAttributeSubscription ==
  INSTANCE CMAttributeSubscriptionTests WITH Values <- 10, Threads <- 2, Returns <- 3
CMMethodCalls == INSTANCE CMMethodCallsTests WITH MaxTimeoutCalls <- 4, Calls <- 3

MCSuites == [AFManaged |-> AFManaged!Suite, AFSelective |-> AFSelective!Suite,
             CMBroadcasts |-> CMBroadcasts!Suite,
             CMMethodCalls |-> CMMethodCalls!Suite,
             CMAttributeSubscription |-> CMAttributeSubscription!Suite]

Script == INSTANCE TestScript

(* What is asserted after a sleep of 10 or 20 ms or waits of 1 ms, or after a  *)
(* wait for something else.                                                    *)
OneMillisecond == {Script!Up(d) : d \in {"device1.1", "device1.2", "device1.3", "device1.4",
                                         "device2.1", "device2.2", "device2.3", "device2.4",
                                         "special0.2", "special0.3", "special0.4"}}
MCKnownRaces ==
  [t \in {"MultipleDeregistrationExplicit", "MultipleDeregistrationExplicitAll",
          "MultipleDeregistrationImplicit"} |-> OneMillisecond]
  @@ ("GetAvailableInstancesWithoutSubscribe" :> {Script!Is("instancesAsync", 1)})
  @@ ("Fire_Selective_Within_Subscription_Changed_Hook" :> {Script!Down("testProxy2")})
  @@ ("Two_proxies_subscribe_delete_one_proxy_status_listener_test" :>
        {Script!Is("subStatus3", "SUCCESS")})
  @@ ("AsynchronousMethodCall" :> {Script!Is("values", <<5>>)})
  @@ ("SubscriptionOnAvailable" :> {Script!Is("h.available", "NOT_AVAILABLE")})
  @@ ("SubscriptionMultithreading" :>
        {Script!Is("data", 1)} \cup
        UNION {{Script!Is(h \o ".status", "SUCCESS"), Script!AtLeast(h \o ".attr", 1),
                Script!Is(h \o ".calls", 1)} : h \in {"thread1", "thread2"}})
  @@ ("SubscribeThreeCallbacksServiceNotAvailable" :> {Script!Is("v3", 33)})
  @@ ("SubscribeThreeCallbacksServiceAvailable" :> {Script!Is("v3", 35)})

(* What a callback still uses that has begun before the test ended, or, in the *)
(* last three tests, that begins only then.                                    *)
MCKnownEscapes ==
  [t \in {"SubscribeAndUnsubscribeUnsubscribe", "SubscribeServiceNotAvailable",
          "SubscribeUnregisterNoValueSetRegisterService", "SubscribeAndUnsubscribeAndReSubscribe",
          "SubscribeMultipleProxysUnsubscribeOneResubscribeSameEventgroup"} |-> {"h.queue"}]
  @@ [t \in {"SubscribeSecondProxyLater", "SubscribeMultipleProxysUnsubscribeAllResubscribe",
             "SubscribeMultipleProxysUnsubscribeAllResubscribeSameEventgroup"} |-> {"b.queue"}]
  @@ [t \in {"SubscribeThreeCallbacksServiceNotAvailable",
             "SubscribeThreeCallbacksServiceAvailable"} |-> {"v3"}]
  @@ ("GetAvailableInstancesWithoutSubscribe" :> {"instancesAsync"})
  @@ ("SubscriptionUnsubscribeFromCallback" :> {"h.queue", "h.started"})
  @@ ("SubscriptionOnAvailable" :> {"h.queue", "h.started", "h.available"})
  @@ ("SubscriptionMultithreading" :>
        UNION {{h \o ".queue", h \o ".started", h \o ".attr"} : h \in {"thread1", "thread2"}})
  @@ ("SubscribeUnregisterSetValueRegisterService" :>
        {"h.queue", "h.attr", "round1.subStatus", "round2.subStatus", "round3.subStatus"})
================================================================================
