---------------------------- MODULE TunnelProofs ----------------------------
(***************************************************************************)
(* Proofs about Tunnel, for every set of gateways and requests and every   *)
(* buffer size.  Each part of the inductive invariant IInv has a lemma     *)
(* "part /\ [Next]_vars => part'", with one step per action that writes    *)
(* a variable of the part and one step for all the others.                 *)
(***************************************************************************)
EXTENDS Tunnel, FiniteSetTheorems, SequenceTheorems, WellFoundedInduction, TLAPS

-----------------------------------------------------------------------------
(* What the operators of PubSub preserve: buffers and histories hold only   *)
(* samples that were sent, and a history never outgrows BufferSize.         *)

\* A nonempty set of natural numbers has a smallest element.
LEMMA NatHasMin ==
    ASSUME NEW T, T \subseteq Nat, T # {}
    PROVE  \E x \in T : \A y \in T : x <= y
<1> DEFINE R == OpToRel(<, Nat)
<1>1. \A x, y \in Nat : <<y, x>> \in R <=> y < x
  BY DEF OpToRel
<1>2. IsWellFoundedOn(R, Nat)
  BY NatLessThanWellFounded
<1> HIDE DEF R
<1>3. \E x \in T : \A y \in T : ~(<<y, x>> \in R)
  BY <1>2, WFMin
<1>4. PICK x \in T : \A y \in T : ~(<<y, x>> \in R)
  BY <1>3
<1>5. ASSUME NEW y \in T PROVE x <= y
  <2>1. x \in Nat /\ y \in Nat /\ ~(y < x)
    BY <1>1, <1>4
  <2> QED
    BY <2>1
<1> QED
  BY <1>5

\* Removing a position leaves a sequence over the same set.
LEMMA RemoveAtType ==
    ASSUME NEW S, NEW s \in Seq(S), NEW i \in DOMAIN s
    PROVE  RemoveAt(s, i) \in Seq(S)
BY DEF RemoveAt

\* The newest elements of a sequence form a sequence over the same set, and
\* they are at most BufferSize many (history_size, iceoryx2_bridge.cpp:22).
LEMMA NewestType ==
    ASSUME NEW S, NEW s \in Seq(S)
    PROVE  Newest(s) \in Seq(S) /\ Len(Newest(s)) <= BufferSize
BY BufferSizeAssumption DEF Newest

\* Sending a sample adds nothing else to the publisher's history.
LEMMA RememberType ==
    ASSUME NEW S, NEW history \in Seq(S), NEW sample \in S
    PROVE  Remember(history, sample) \in Seq(S)
<1>1. Append(history, sample) \in Seq(S)
  OBVIOUS
<1> QED
  BY <1>1, NewestType DEF Remember

\* ... nor to the subscriber's buffer: overflow and history delivery included,
\* what a subscriber can receive is what was sent.
LEMMA DeliverType ==
    ASSUME NEW S, NEW buffer \in Seq(S), NEW history \in Seq(S), NEW sample \in S,
           NEW connected
    PROVE  Deliver(buffer, history, connected, sample) \in Seq(S)
<1>1. CASE ~connected
  BY <1>1, RememberType DEF Deliver
<1>2. CASE connected /\ Cardinality(Of(buffer, sample.pub)) < BufferSize
  BY <1>2 DEF Deliver
<1>3. CASE connected /\ ~(Cardinality(Of(buffer, sample.pub)) < BufferSize)
  <2> DEFINE T == Of(buffer, sample.pub)
  <2>1. T \subseteq Nat /\ T \subseteq DOMAIN buffer
    BY DEF Of
  <2>2. T # {}
    <3>1. Cardinality({}) = 0
      BY FS_EmptySet
    <3>2. 0 < BufferSize
      BY BufferSizeAssumption
    <3>3. SUFFICES ASSUME T = {} PROVE FALSE
      OBVIOUS
    <3>4. Cardinality(T) = 0
      BY <3>1, <3>3
    <3> QED
      BY <1>3, <3>2, <3>4
  <2>3. \E i \in T : \A j \in T : i <= j
    BY <2>1, <2>2, NatHasMin
  <2>4. Min(T) \in DOMAIN buffer
    BY <2>1, <2>3 DEF Min
  <2>5. RemoveAt(buffer, Min(T)) \in Seq(S)
    BY <2>4, RemoveAtType
  <2> QED
    BY <1>3, <2>5 DEF Deliver
<1> QED
  BY <1>1, <1>2, <1>3

-----------------------------------------------------------------------------
(* The tunnel                                                              *)

\* Part of TypeOK: main, the threads of the tunnel and the gateway process stay in their states.
LEMMA ThreadTypeOKStep ==
    TypeOK /\ [Next]_vars => ThreadTypeOK'
<1> USE CallsAssumption, MaxTogglesAssumption, PidsAssumption, RequestsAssumption
<1>1. ASSUME TypeOK, NEW p \in Pids, MainWait(p)
      PROVE  ThreadTypeOK'
  BY <1>1 DEF TypeOK, ThreadTypeOK, Alive, MainWait, threadVars, gatewayVars
<1>2. ASSUME TypeOK, MainSporadicWake PROVE ThreadTypeOK'
  BY <1>2 DEF TypeOK, ThreadTypeOK, Alive, MainSporadicWake, threadVars, gatewayVars
<1>3. ASSUME TypeOK, StopApp PROVE ThreadTypeOK'
  BY <1>3 DEF TypeOK, ThreadTypeOK, Alive, StopApp, gatewayVars
<1>4. ASSUME TypeOK, StopReceiving PROVE ThreadTypeOK'
  BY <1>4 DEF TypeOK, ThreadTypeOK, Alive, StopReceiving, gatewayVars
<1>5. ASSUME TypeOK, JoinRecv PROVE ThreadTypeOK'
  BY <1>5 DEF TypeOK, ThreadTypeOK, Alive, JoinRecv, threadVars, gatewayVars
<1>6. ASSUME TypeOK, JoinStarter PROVE ThreadTypeOK'
  BY <1>6 DEF TypeOK, ThreadTypeOK, Alive, JoinStarter, threadVars, gatewayVars
<1>7. ASSUME TypeOK, Construct PROVE ThreadTypeOK'
  BY <1>7 DEF TypeOK, ThreadTypeOK, Alive, Construct
<1>8. ASSUME TypeOK, InitTunnel PROVE ThreadTypeOK'
  BY <1>8 DEF TypeOK, ThreadTypeOK, Alive, InitTunnel, gatewayVars
<1>9. ASSUME TypeOK, Spawn PROVE ThreadTypeOK'
  BY <1>9 DEF TypeOK, ThreadTypeOK, Alive, Spawn, gatewayVars
<1>10. ASSUME TypeOK, Notify PROVE ThreadTypeOK'
  BY <1>10 DEF TypeOK, ThreadTypeOK, Alive, Notify, threadVars
<1>11. ASSUME TypeOK, RoutingInit PROVE ThreadTypeOK'
  BY <1>11 DEF TypeOK, ThreadTypeOK, Alive, RoutingInit, threadVars, gatewayVars
<1>12. ASSUME TypeOK, StarterRun PROVE ThreadTypeOK'
  BY <1>12 DEF TypeOK, ThreadTypeOK, Alive, StarterRun, mainVars, gatewayVars
<1>13. ASSUME TypeOK, StarterReturns PROVE ThreadTypeOK'
  BY <1>13 DEF TypeOK, ThreadTypeOK, Alive, StarterReturns, mainVars, gatewayVars
<1>14. ASSUME TypeOK, RecvInternal PROVE ThreadTypeOK'
  BY <1>14 DEF TypeOK, ThreadTypeOK, Alive, RecvInternal, mainVars, gatewayVars
<1>15. ASSUME TypeOK, FromGatewayEmpty PROVE ThreadTypeOK'
  BY <1>15 DEF TypeOK, ThreadTypeOK, Alive, FromGatewayEmpty, mainVars, gatewayVars
<1>16. ASSUME TypeOK, NEW i \in DOMAIN fromRust, IncommingMsg(i)
      PROVE  ThreadTypeOK'
  BY <1>16 DEF TypeOK, ThreadTypeOK, IncommingMsg, CallApp, Respond, Alive, threadVars, gatewayVars
<1>17. ASSUME TypeOK, NEW t \in Calls, GatewayAsk(t)
      PROVE  ThreadTypeOK'
  BY <1>17 DEF TypeOK, ThreadTypeOK, Alive, GatewayAsk, mainVars, threadVars
<1>18. ASSUME TypeOK, NEW p \in Pids, GatewayStart(p)
      PROVE  ThreadTypeOK'
  <2>1. lifetime' \subseteq Pids
    BY <1>18 DEF TypeOK, ThreadTypeOK, GatewayStart
  <2>2. /\ gateway' \in [pid : Pids \cup {0}, phase : {"dead", "waiting", "ready"}, asked : SUBSET Calls]
        /\ gateway'.pid \in Pids
    BY <1>18 DEF GatewayStart
  <2> QED
    BY <1>18, <2>1, <2>2 DEF TypeOK, ThreadTypeOK, GatewayStart, Alive, threadVars
<1>19. ASSUME TypeOK, GatewayAnnounce PROVE ThreadTypeOK'
  <2>1. lifetime' \subseteq Pids
    BY <1>19 DEF TypeOK, ThreadTypeOK, GatewayAnnounce
  <2> QED
    BY <1>19, <2>1 DEF TypeOK, ThreadTypeOK, GatewayAnnounce, Alive, threadVars, gatewayVars
<1>20. ASSUME TypeOK, GatewayCrash PROVE ThreadTypeOK'
  BY <1>20 DEF TypeOK, ThreadTypeOK, Alive, GatewayCrash, mainVars, threadVars
<1>21. ASSUME [Next]_vars, (\A p \in Pids : ~MainWait(p)), ~MainSporadicWake, ~StopApp, ~StopReceiving,
             ~JoinRecv, ~JoinStarter, ~Construct, ~InitTunnel, ~Spawn, ~Notify,
             ~RoutingInit, ~StarterRun, ~StarterReturns, ~RecvInternal, ~FromGatewayEmpty,
             (\A i \in DOMAIN fromRust : ~IncommingMsg(i)), (\A t \in Calls :
             ~GatewayAsk(t)), (\A p \in Pids : ~GatewayStart(p)), ~GatewayAnnounce,
             ~GatewayCrash
      PROVE  UNCHANGED <<mainPc, currentPid, lifetime, host, terminated, instance, app, starter, recv, gateway>>
  BY <1>21 DEF Next, Main, Starter, Callbacks, CallbackRest, Receive, GatewayWork, GatewayLife,
          FromSomeip, ServiceStateChanged, Emplace, SendToGateway, GatewayReceive,
          gatewayVars, mainVars, threadVars, vars
<1>22. ASSUME TypeOK, UNCHANGED <<mainPc, currentPid, lifetime, host, terminated, instance, app, starter, recv, gateway>> PROVE ThreadTypeOK'
  BY <1>22 DEF TypeOK, ThreadTypeOK, Alive
<1> QED
  BY <1>1, <1>2, <1>3, <1>4, <1>5, <1>6, <1>7, <1>8, <1>9, <1>10, <1>11, <1>12, <1>13,
     <1>14, <1>15, <1>16, <1>17, <1>18, <1>19, <1>20, <1>21, <1>22

\* Part of TypeOK: flags stay Boolean.
LEMMA FlagTypeOKStep ==
    TypeOK /\ [Next]_vars => FlagTypeOK'
<1> USE CallsAssumption, MaxTogglesAssumption, PidsAssumption, RequestsAssumption
<1>1. ASSUME TypeOK, StopReceiving PROVE FlagTypeOK'
  BY <1>1 DEF TypeOK, FlagTypeOK, Publish, StopReceiving, gatewayVars
<1>2. ASSUME TypeOK, Construct PROVE FlagTypeOK'
  BY <1>2 DEF TypeOK, FlagTypeOK, Publish, Construct
<1>3. ASSUME TypeOK, RoutingInit PROVE FlagTypeOK'
  BY <1>3 DEF TypeOK, FlagTypeOK, Publish, RoutingInit, threadVars, gatewayVars
<1>4. ASSUME TypeOK, SendToGateway PROVE FlagTypeOK'
  BY <1>4 DEF TypeOK, FlagTypeOK, Publish, SendToGateway, mainVars, threadVars
<1>5. ASSUME TypeOK, NEW t \in Calls, GatewayAsk(t)
      PROVE  FlagTypeOK'
  BY <1>5 DEF TypeOK, FlagTypeOK, Publish, GatewayAsk, mainVars, threadVars
<1>6. ASSUME TypeOK, NEW i \in DOMAIN toRust, GatewayReceive(i)
      PROVE  FlagTypeOK'
  BY <1>6 DEF TypeOK, FlagTypeOK, Publish, GatewayReceive, mainVars, threadVars
<1>7. ASSUME TypeOK, GatewayCrash PROVE FlagTypeOK'
  BY <1>7 DEF TypeOK, FlagTypeOK, Publish, GatewayCrash, mainVars, threadVars
<1>8. ASSUME [Next]_vars, ~StopReceiving, ~Construct, ~RoutingInit, ~SendToGateway, (\A t \in Calls :
             ~GatewayAsk(t)), (\A i \in DOMAIN toRust : ~GatewayReceive(i)), ~GatewayCrash
      PROVE  UNCHANGED <<routing, mShallRun, linked, delivered>>
  BY <1>8 DEF Next, Main, Starter, Callbacks, CallbackRest, Receive, GatewayWork, GatewayLife,
          MainWait, MainSporadicWake, StopApp, JoinRecv, JoinStarter, InitTunnel, Spawn,
          Notify, StarterRun, StarterReturns, FromSomeip, ServiceStateChanged, Emplace,
          RecvInternal, FromGatewayEmpty, IncommingMsg, GatewayStart, GatewayAnnounce,
          gatewayVars, mainVars, threadVars, vars
<1>9. ASSUME TypeOK, UNCHANGED <<routing, mShallRun, linked, delivered>> PROVE FlagTypeOK'
  BY <1>9 DEF TypeOK, FlagTypeOK
<1> QED
  BY <1>1, <1>2, <1>3, <1>4, <1>5, <1>6, <1>7, <1>8, <1>9

\* Part of TypeOK: the map, the ids, the callback and the answers keep their types.
LEMMA DataTypeOKStep ==
    TypeOK /\ [Next]_vars => DataTypeOK'
<1> USE CallsAssumption, MaxTogglesAssumption, PidsAssumption, RequestsAssumption
<1>1. ASSUME TypeOK, Construct PROVE DataTypeOK'
  BY <1>1 DEF TypeOK, DataTypeOK, Samples, Sample, Callback, Idle, mDist, Construct, clientVars
<1>2. ASSUME TypeOK, NEW r \in Requests, FromSomeip(r)
      PROVE  DataTypeOK'
  <2>1. callback' \in [step : {"emplace", "send"}, sample : Samples] /\ callback'.sample.request \in Requests
    BY <1>2 DEF TypeOK, ThreadTypeOK, DataTypeOK, FromSomeip, Callback, Sample, Samples, mDist
  <2> QED
    BY <1>2, <2>1 DEF TypeOK, DataTypeOK, FromSomeip, recvVars
<1>3. ASSUME TypeOK, ServiceStateChanged PROVE DataTypeOK'
  <2>1. callback' \in [step : {"emplace", "send"}, sample : Samples] /\ callback'.step = "send"
    BY <1>3 DEF TypeOK, ThreadTypeOK, ServiceStateChanged, Callback, Sample, Samples
  <2> QED
    BY <1>3, <2>1 DEF TypeOK, DataTypeOK, ServiceStateChanged, recvVars, clientVars
<1>4. ASSUME TypeOK, Emplace PROVE DataTypeOK'
  BY <1>4 DEF TypeOK, DataTypeOK, Samples, Sample, Callback, Idle, mDist, Emplace, recvVars, clientVars
<1>5. ASSUME TypeOK, SendToGateway PROVE DataTypeOK'
  BY <1>5 DEF TypeOK, DataTypeOK, Samples, Sample, Callback, Idle, mDist, SendToGateway, recvVars, clientVars
<1>6. ASSUME TypeOK, NEW i \in DOMAIN fromRust, IncommingMsg(i)
      PROVE  DataTypeOK'
  <2> DEFINE s == fromRust[i]
  <2>1. s \in Samples /\ instance \in Nat
    BY <1>6 DEF TypeOK, ThreadTypeOK, BufferTypeOK
  <2> HIDE DEF s
  <2>2. UNCHANGED <<mapVars, arrived>>
    BY <1>6 DEF IncommingMsg
  <2>3. CASE CallApp(s)
    <3>1. [type |-> s.type, pid |-> s.pub, by |-> instance] \in [type : Calls, pid : Nat, by : Nat]
      BY <2>1, <2>3 DEF CallApp, Samples
    <3>2. dropped' \subseteq [type : Calls, pid : Nat, by : Nat]
      BY <1>6, <2>3, <3>1 DEF TypeOK, DataTypeOK, CallApp
    <3>3. accepted' \subseteq Calls
      BY <1>6, <2>3 DEF TypeOK, DataTypeOK, CallApp
    <3> QED
      BY <1>6, <2>2, <2>3, <3>2, <3>3 DEF TypeOK, DataTypeOK, CallApp, mapVars
  <2>4. CASE Respond(s)
    BY <1>6, <2>1, <2>2, <2>4 DEF TypeOK, DataTypeOK, Respond, Samples, mapVars
  <2> QED
    BY <1>6, <2>3, <2>4 DEF IncommingMsg, s
<1>7. ASSUME [Next]_vars, ~Construct, (\A r \in Requests : ~FromSomeip(r)), ~ServiceStateChanged,
             ~Emplace, ~SendToGateway, (\A i \in DOMAIN fromRust : ~IncommingMsg(i))
      PROVE  UNCHANGED <<mMessagesInProgress, drawn, toggles, callback, accepted, dropped, arrived, answers>>
  BY <1>7 DEF Next, Main, Starter, Callbacks, CallbackRest, Receive, GatewayWork, GatewayLife,
          MainWait, MainSporadicWake, StopApp, StopReceiving, JoinRecv, JoinStarter,
          InitTunnel, Spawn, Notify, RoutingInit, StarterRun, StarterReturns, RecvInternal,
          FromGatewayEmpty, GatewayAsk, GatewayReceive, GatewayStart, GatewayAnnounce,
          GatewayCrash, clientVars, mapVars, recvVars, vars
<1>8. ASSUME TypeOK, UNCHANGED <<mMessagesInProgress, drawn, toggles, callback, accepted, dropped, arrived, answers>> PROVE DataTypeOK'
  BY <1>8 DEF TypeOK, DataTypeOK
<1> QED
  BY <1>1, <1>2, <1>3, <1>4, <1>5, <1>6, <1>7, <1>8

\* Which threads can be alive where main is (ThreadInv): joins come before
\* the replacement, and a callback runs only inside start().
LEMMA ThreadInvStep ==
    TypeOK /\ ThreadInv /\ [Next]_vars => ThreadInv'
<1>1. ASSUME TypeOK, ThreadInv, NEW p \in Pids, MainWait(p)
      PROVE  ThreadInv'
  BY <1>1 DEF TypeOK, ThreadTypeOK, ThreadInv, MainWait, threadVars, mapVars
<1>2. ASSUME TypeOK, ThreadInv, StopApp PROVE ThreadInv'
  BY <1>2 DEF TypeOK, ThreadTypeOK, ThreadInv, StopApp, mapVars
<1>3. ASSUME TypeOK, ThreadInv, StopReceiving PROVE ThreadInv'
  BY <1>3 DEF TypeOK, ThreadTypeOK, ThreadInv, StopReceiving, mapVars
<1>4. ASSUME TypeOK, ThreadInv, JoinRecv PROVE ThreadInv'
  BY <1>4 DEF TypeOK, ThreadTypeOK, ThreadInv, JoinRecv, threadVars, mapVars
<1>5. ASSUME TypeOK, ThreadInv, JoinStarter PROVE ThreadInv'
  BY <1>5 DEF TypeOK, ThreadTypeOK, ThreadInv, JoinStarter, threadVars, mapVars
<1>6. ASSUME TypeOK, ThreadInv, Construct PROVE ThreadInv'
  BY <1>6 DEF TypeOK, ThreadTypeOK, ThreadInv, Construct
<1>7. ASSUME TypeOK, ThreadInv, InitTunnel PROVE ThreadInv'
  BY <1>7 DEF TypeOK, ThreadTypeOK, ThreadInv, InitTunnel, mapVars
<1>8. ASSUME TypeOK, ThreadInv, Spawn PROVE ThreadInv'
  BY <1>8 DEF TypeOK, ThreadTypeOK, ThreadInv, Spawn, mapVars
<1>9. ASSUME TypeOK, ThreadInv, Notify PROVE ThreadInv'
  BY <1>9 DEF TypeOK, ThreadTypeOK, ThreadInv, Notify, threadVars, mapVars
<1>10. ASSUME TypeOK, ThreadInv, StarterRun PROVE ThreadInv'
  BY <1>10 DEF TypeOK, ThreadTypeOK, ThreadInv, StarterRun, mainVars, mapVars
<1>11. ASSUME TypeOK, ThreadInv, StarterReturns PROVE ThreadInv'
  BY <1>11 DEF TypeOK, ThreadTypeOK, ThreadInv, StarterReturns, mainVars, mapVars
<1>12. ASSUME TypeOK, ThreadInv, NEW r \in Requests, FromSomeip(r)
      PROVE  ThreadInv'
  BY <1>12 DEF TypeOK, ThreadTypeOK, ThreadInv, FromSomeip, mainVars, threadVars
<1>13. ASSUME TypeOK, ThreadInv, ServiceStateChanged PROVE ThreadInv'
  BY <1>13 DEF TypeOK, ThreadTypeOK, ThreadInv, ServiceStateChanged, mainVars, threadVars
<1>14. ASSUME TypeOK, ThreadInv, Emplace PROVE ThreadInv'
  BY <1>14 DEF ThreadInv, Emplace, Callback, Idle, mainVars, threadVars
<1>15. ASSUME TypeOK, ThreadInv, SendToGateway PROVE ThreadInv'
  BY <1>15 DEF TypeOK, ThreadTypeOK, ThreadInv, SendToGateway, mainVars, threadVars
<1>16. ASSUME TypeOK, ThreadInv, RecvInternal PROVE ThreadInv'
  BY <1>16 DEF TypeOK, ThreadTypeOK, ThreadInv, RecvInternal, mainVars, mapVars
<1>17. ASSUME TypeOK, ThreadInv, FromGatewayEmpty PROVE ThreadInv'
  BY <1>17 DEF TypeOK, ThreadTypeOK, ThreadInv, FromGatewayEmpty, mainVars, mapVars
<1>18. ASSUME [Next]_vars, (\A p \in Pids : ~MainWait(p)), ~StopApp, ~StopReceiving, ~JoinRecv,
             ~JoinStarter, ~Construct, ~InitTunnel, ~Spawn, ~Notify, ~StarterRun,
             ~StarterReturns, (\A r \in Requests : ~FromSomeip(r)), ~ServiceStateChanged,
             ~Emplace, ~SendToGateway, ~RecvInternal, ~FromGatewayEmpty
      PROVE  UNCHANGED <<instance, recv, starter, mainPc, callback>>
  BY <1>18 DEF Next, Main, Starter, Callbacks, CallbackRest, Receive, GatewayWork, GatewayLife,
          MainSporadicWake, RoutingInit, IncommingMsg, GatewayAsk, GatewayReceive,
          GatewayStart, GatewayAnnounce, GatewayCrash, mainVars, mapVars, threadVars, vars
<1>19. ASSUME TypeOK, ThreadInv, UNCHANGED <<instance, recv, starter, mainPc, callback>> PROVE ThreadInv'
  BY <1>19 DEF ThreadInv
<1> QED
  BY <1>1, <1>2, <1>3, <1>4, <1>5, <1>6, <1>7, <1>8, <1>9, <1>10, <1>11, <1>12, <1>13,
     <1>14, <1>15, <1>16, <1>17, <1>18, <1>19

\* The messages in progress stay a map whose keys are ids already drawn.
LEMMA MapInvStep ==
    TypeOK /\ ThreadInv /\ MapInv /\ [Next]_vars => MapInv'
<1>1. ASSUME TypeOK, ThreadInv, MapInv, Construct PROVE MapInv'
  <2>1. callback = Idle /\ callback' = Idle /\ mMessagesInProgress' = {}
    BY <1>1 DEF ThreadInv, Construct
  <2> QED
    BY <2>1 DEF MapInv, Idle, Callback
<1>2. ASSUME TypeOK, ThreadInv, MapInv, NEW r \in Requests, FromSomeip(r)
      PROVE  MapInv'
  <2>1. callback' = Callback("emplace", Sample("MESSAGE", drawn + 1, r, instance, instance))
    BY <1>2 DEF FromSomeip, mDist
  <2>2. drawn \in Nat /\ drawn' = drawn + 1 /\ mMessagesInProgress' = mMessagesInProgress
    BY <1>2 DEF TypeOK, DataTypeOK, FromSomeip
  <2>3. callback'.sample.id = drawn' /\ drawn' > 0
    BY <2>1, <2>2 DEF Callback, Sample
  <2> QED
    BY <1>2, <2>2, <2>3 DEF MapInv
<1>3. ASSUME TypeOK, ThreadInv, MapInv, ServiceStateChanged PROVE MapInv'
  <2>1. callback'.step = "send"
    BY <1>3 DEF ServiceStateChanged, Callback
  <2> QED
    BY <1>3, <2>1 DEF MapInv, ServiceStateChanged
<1>4. ASSUME TypeOK, ThreadInv, MapInv, Emplace PROVE MapInv'
  <2> DEFINE s == callback.sample
             e == [id |-> s.id, request |-> s.request]
  <2>1. s.id = drawn /\ (\A m \in mMessagesInProgress : m.id # s.id)
    BY <1>4 DEF MapInv, Emplace
  <2>2. mMessagesInProgress' = mMessagesInProgress \cup {e} /\ drawn' = drawn
    BY <1>4, <2>1 DEF Emplace
  <2>3. callback'.step = "send"
    BY <1>4 DEF Emplace, Callback
  <2>4. e.id = drawn /\ drawn \in 1..drawn
    BY <2>1, <1>4 DEF MapInv, Emplace, TypeOK, DataTypeOK
  <2> HIDE DEF e, s
  <2> QED
    BY <1>4, <2>1, <2>2, <2>3, <2>4 DEF MapInv
<1>5. ASSUME TypeOK, ThreadInv, MapInv, SendToGateway PROVE MapInv'
  <2>1. callback'.step = "idle"
    BY <1>5 DEF SendToGateway, Idle, Callback
  <2> QED
    BY <1>5, <2>1 DEF MapInv, SendToGateway
<1>6. ASSUME [Next]_vars, ~Construct, (\A r \in Requests : ~FromSomeip(r)), ~ServiceStateChanged,
             ~Emplace, ~SendToGateway
      PROVE  UNCHANGED <<mMessagesInProgress, drawn, callback>>
  BY <1>6 DEF Next, Main, Starter, Callbacks, CallbackRest, Receive, GatewayWork, GatewayLife,
          MainWait, MainSporadicWake, StopApp, StopReceiving, JoinRecv, JoinStarter,
          InitTunnel, Spawn, Notify, RoutingInit, StarterRun, StarterReturns, RecvInternal,
          FromGatewayEmpty, IncommingMsg, GatewayAsk, GatewayReceive, GatewayStart,
          GatewayAnnounce, GatewayCrash, mapVars, vars
<1>7. ASSUME TypeOK, ThreadInv, MapInv, UNCHANGED <<mMessagesInProgress, drawn, callback>> PROVE MapInv'
  BY <1>7 DEF MapInv
<1> QED
  BY <1>1, <1>2, <1>3, <1>4, <1>5, <1>6, <1>7

\* A step that only adds to mMessagesInProgress keeps good samples good.
LEMMA GoodGrows ==
    ASSUME TypeOK, instance' = instance, mMessagesInProgress \subseteq mMessagesInProgress'
    PROVE  GoodSamples \subseteq GoodSamples' /\ GoodReplies \subseteq GoodReplies'
BY DEF GoodSamples, GoodReplies, Good, Samples

\* A step that touches no sample and no entry preserves SampleInv.
LEMMA SampleInvFrame ==
    ASSUME TypeOK, SampleInv,
           UNCHANGED <<instance, mMessagesInProgress, callback, sent, toRust, fromRust, published>>
    PROVE  SampleInv'
<1>1. GoodSamples' = GoodSamples /\ GoodReplies' = GoodReplies
  BY DEF GoodSamples, GoodReplies, Good, Samples
<1> QED
  BY <1>1 DEF SampleInv, Good

\* A good sample that carries no state change is a good reply.
LEMMA ReplyIsGood ==
    ASSUME TypeOK, NEW s \in GoodSamples, s.type # "FIND_SERVICE_ACK"
    PROVE  s \in GoodReplies
BY DEF GoodReplies

\* The pid of the gateway is a number.
LEMMA PidIsNat ==
    ASSUME TypeOK
    PROVE  gateway.pid \in Nat
<1>1. gateway.pid \in Pids \cup {0}
  BY DEF TypeOK, ThreadTypeOK
<1>2. \A p \in Pids : p \in Nat
  BY PidsAssumption
<1>3. CASE gateway.pid = 0
  BY <1>3
<1> QED
  BY <1>1, <1>2, <1>3

\* What a gateway publishes is a good reply if its sample is.
LEMMA PublishGood ==
    ASSUME TypeOK, SampleInv, NEW s \in GoodReplies, Publish(s)
    PROVE  published' \in Seq(GoodReplies) /\ fromRust' \in Seq(GoodReplies)
<1>1. Remember(published, s) \in Seq(GoodReplies)
  BY RememberType DEF SampleInv
<1>2. Deliver(fromRust, published, delivered, s) \in Seq(GoodReplies)
  BY DeliverType DEF SampleInv
<1> QED
  BY <1>1, <1>2 DEF Publish, SampleInv


\* Every action keeps the samples in flight good.
LEMMA SampleInvStep ==
    TypeOK /\ ThreadInv /\ MapInv /\ SampleInv /\ [Next]_vars => SampleInv'
<1>1. ASSUME TypeOK, ThreadInv, MapInv, SampleInv, Construct PROVE SampleInv'
  <2>1. GoodSamples \subseteq GoodSamples' /\ GoodReplies \subseteq GoodReplies'
    BY <1>1 DEF Construct, GoodSamples, GoodReplies, Good, Samples, TypeOK, ThreadTypeOK
  <2>2. callback'.step = "idle"
    BY <1>1 DEF ThreadInv, Construct, Idle, Callback
  <2>3. UNCHANGED <<toRust, published>> /\ sent' = <<>> /\ fromRust' = <<>>
    BY <1>1 DEF Construct
  <2>4. toRust' \in Seq(GoodSamples') /\ published' \in Seq(GoodReplies')
    BY <1>1, <2>1, <2>3, SeqMonotonic DEF SampleInv
  <2> QED
    BY <2>2, <2>3, <2>4 DEF SampleInv
<1>2. ASSUME TypeOK, ThreadInv, MapInv, SampleInv, NEW r \in Requests, FromSomeip(r)
      PROVE  SampleInv'
  <2>1. UNCHANGED <<instance, mMessagesInProgress, sent, toRust, fromRust, published>>
    BY <1>2 DEF FromSomeip, threadVars, recvVars, gatewayVars
  <2>2. GoodSamples' = GoodSamples /\ GoodReplies' = GoodReplies
    BY <2>1 DEF GoodSamples, GoodReplies, Good, Samples
  <2>3. callback'.step = "emplace" /\ callback'.sample.type = "MESSAGE" /\ callback'.sample.inst = instance
    BY <1>2 DEF FromSomeip, Callback, Sample
  <2> QED
    BY <1>2, <2>1, <2>2, <2>3 DEF SampleInv
<1>3. ASSUME TypeOK, ThreadInv, MapInv, SampleInv, ServiceStateChanged PROVE SampleInv'
  <2>1. UNCHANGED <<instance, mMessagesInProgress, sent, toRust, fromRust, published>>
    BY <1>3 DEF ServiceStateChanged, threadVars, recvVars, gatewayVars
  <2>2. GoodSamples' = GoodSamples /\ GoodReplies' = GoodReplies
    BY <2>1 DEF GoodSamples, GoodReplies, Good, Samples
  <2>3. callback'.step = "send" /\ callback'.sample.type = "FIND_SERVICE_ACK" /\ callback'.sample.inst = instance
    BY <1>3 DEF ServiceStateChanged, Callback, Sample
  <2>4. Good(callback.sample)'
    BY <1>3, <2>1, <2>3 DEF Good, TypeOK, ThreadTypeOK
  <2> QED
    BY <1>3, <2>1, <2>2, <2>3, <2>4 DEF SampleInv
<1>4. ASSUME TypeOK, ThreadInv, MapInv, SampleInv, Emplace PROVE SampleInv'
  <2> DEFINE s == callback.sample
             e == [id |-> s.id, request |-> s.request]
  <2>1. UNCHANGED <<instance, sent, toRust, fromRust, published>>
    BY <1>4 DEF Emplace, threadVars, recvVars, gatewayVars
  <2>2. mMessagesInProgress' = mMessagesInProgress \cup {e}
    BY <1>4 DEF MapInv, Emplace
  <2>3. GoodSamples \subseteq GoodSamples' /\ GoodReplies \subseteq GoodReplies'
    BY <1>4, <2>1, <2>2, GoodGrows
  <2>4. /\ sent' \in Seq(GoodSamples') /\ toRust' \in Seq(GoodSamples')
        /\ fromRust' \in Seq(GoodReplies') /\ published' \in Seq(GoodReplies')
    BY <1>4, <2>1, <2>3, SeqMonotonic DEF SampleInv
  <2>5. callback'.step = "send" /\ callback'.sample = s
    BY <1>4 DEF Emplace, Callback
  <2>6. s.inst = instance /\ instance \in Nat
    BY <1>4 DEF SampleInv, Emplace, TypeOK, ThreadTypeOK
  <2>7. Good(callback.sample)'
    BY <2>1, <2>2, <2>5, <2>6 DEF Good
  <2> QED
    BY <2>4, <2>5, <2>7 DEF SampleInv
<1>5. ASSUME TypeOK, ThreadInv, MapInv, SampleInv, SendToGateway PROVE SampleInv'
  <2> DEFINE s == callback.sample
  <2>1. UNCHANGED <<instance, mMessagesInProgress, fromRust, published>>
    BY <1>5 DEF SendToGateway, threadVars, recvVars
  <2>2. GoodSamples' = GoodSamples /\ GoodReplies' = GoodReplies
    BY <2>1 DEF GoodSamples, GoodReplies, Good, Samples
  <2>3. callback # Idle /\ callback'.step = "idle"
    BY <1>5 DEF SendToGateway, Idle, Callback
  <2>4. s \in GoodSamples
    BY <1>5, <2>3 DEF TypeOK, DataTypeOK, SendToGateway, SampleInv, GoodSamples
  <2>5. Remember(sent, s) \in Seq(GoodSamples)
    BY <1>5, <2>4, RememberType DEF SampleInv
  <2>6. Deliver(toRust, sent, linked, s) \in Seq(GoodSamples)
    BY <1>5, <2>4, DeliverType DEF SampleInv
  <2>7. sent' \in Seq(GoodSamples) /\ toRust' \in Seq(GoodSamples)
    BY <1>5, <2>5, <2>6 DEF SendToGateway, SampleInv
  <2> QED
    BY <1>5, <2>1, <2>2, <2>3, <2>7 DEF SampleInv
<1>6. ASSUME TypeOK, ThreadInv, MapInv, SampleInv, NEW i \in DOMAIN fromRust, IncommingMsg(i)
      PROVE  SampleInv'
  <2>1. UNCHANGED <<instance, mMessagesInProgress, callback, sent, toRust, published>>
    BY <1>6 DEF IncommingMsg, threadVars, mapVars, gatewayVars
  <2>2. GoodSamples' = GoodSamples /\ GoodReplies' = GoodReplies
    BY <2>1 DEF GoodSamples, GoodReplies, Good, Samples
  <2>3. fromRust' \in Seq(GoodReplies)
    BY <1>6, RemoveAtType DEF IncommingMsg, SampleInv
  <2> QED
    BY <1>6, <2>1, <2>2, <2>3 DEF SampleInv, Good
<1>7. ASSUME TypeOK, ThreadInv, MapInv, SampleInv, NEW t \in Calls, GatewayAsk(t)
      PROVE  SampleInv'
  <2> DEFINE s == Sample(t, 0, NoRequest, instance, gateway.pid)
  <2>1. UNCHANGED <<instance, mMessagesInProgress, callback, sent, toRust>>
    BY <1>7 DEF GatewayAsk, threadVars, mapVars
  <2>2. GoodSamples' = GoodSamples /\ GoodReplies' = GoodReplies
    BY <2>1 DEF GoodSamples, GoodReplies, Good, Samples
  <2>3. gateway.pid \in Nat
    BY <1>7, PidIsNat
  <2>6. instance \in Nat /\ t \notin {"MESSAGE", "FIND_SERVICE_ACK"}
    BY <1>7, CallsAssumption DEF TypeOK, ThreadTypeOK
  <2>4. s \in GoodReplies
    BY <2>3, <2>6 DEF GoodReplies, GoodSamples, Good, Samples, Sample
  <2>5. published' \in Seq(GoodReplies) /\ fromRust' \in Seq(GoodReplies)
    BY <1>7, <2>4, PublishGood DEF GatewayAsk
  <2> QED
    BY <1>7, <2>1, <2>2, <2>5 DEF SampleInv, Good
<1>8. ASSUME TypeOK, ThreadInv, MapInv, SampleInv, NEW i \in DOMAIN toRust, GatewayReceive(i)
      PROVE  SampleInv'
  <2> DEFINE q == toRust[i]
             s == Sample("MESSAGE", q.id, q.request, q.inst, gateway.pid)
  <2>1. UNCHANGED <<instance, mMessagesInProgress, callback, sent>>
    BY <1>8 DEF GatewayReceive, threadVars, mapVars
  <2>2. GoodSamples' = GoodSamples /\ GoodReplies' = GoodReplies
    BY <2>1 DEF GoodSamples, GoodReplies, Good, Samples
  <2>3. q \in GoodSamples /\ gateway.pid \in Nat
    BY <1>8, PidIsNat DEF SampleInv
  <2>4. toRust' \in Seq(GoodSamples)
    BY <1>8, RemoveAtType DEF GatewayReceive, SampleInv
  <2>5. published' \in Seq(GoodReplies) /\ fromRust' \in Seq(GoodReplies)
    <3>1. CASE q.type = "MESSAGE"
      <4>1. s \in GoodReplies
        BY <2>3, <3>1 DEF GoodReplies, GoodSamples, Good, Samples, Sample
      <4> QED
        BY <1>8, <3>1, <4>1, PublishGood DEF GatewayReceive
    <3>2. CASE q.type # "MESSAGE"
      BY <1>8, <3>2 DEF GatewayReceive, SampleInv
    <3> QED
      BY <3>1, <3>2
  <2> QED
    BY <1>8, <2>1, <2>2, <2>4, <2>5 DEF SampleInv, Good
<1>9. ASSUME TypeOK, ThreadInv, MapInv, SampleInv, GatewayCrash PROVE SampleInv'
  <2>1. UNCHANGED <<instance, mMessagesInProgress, callback, sent, fromRust>>
    BY <1>9 DEF GatewayCrash, threadVars, mapVars, recvVars
  <2>2. GoodSamples' = GoodSamples /\ GoodReplies' = GoodReplies
    BY <2>1 DEF GoodSamples, GoodReplies, Good, Samples
  <2>3. toRust' = <<>> /\ published' = <<>>
    BY <1>9 DEF GatewayCrash
  <2> QED
    BY <1>9, <2>1, <2>2, <2>3 DEF SampleInv, Good
<1>10. ASSUME [Next]_vars, ~Construct, (\A r \in Requests : ~FromSomeip(r)), ~ServiceStateChanged,
             ~Emplace, ~SendToGateway, (\A i \in DOMAIN fromRust : ~IncommingMsg(i)), (\A t
             \in Calls : ~GatewayAsk(t)), (\A i \in DOMAIN toRust : ~GatewayReceive(i)),
             ~GatewayCrash
      PROVE  UNCHANGED <<instance, mMessagesInProgress, callback, sent, toRust, fromRust, published>>
  BY <1>10 DEF Next, Main, Starter, Callbacks, CallbackRest, Receive, GatewayWork, GatewayLife,
          MainWait, MainSporadicWake, StopApp, StopReceiving, JoinRecv, JoinStarter,
          InitTunnel, Spawn, Notify, RoutingInit, StarterRun, StarterReturns, RecvInternal,
          FromGatewayEmpty, GatewayStart, GatewayAnnounce, gatewayVars, mapVars, recvVars,
          threadVars, vars
<1>11. ASSUME TypeOK, ThreadInv, MapInv, SampleInv, UNCHANGED <<instance, mMessagesInProgress, callback, sent, toRust, fromRust, published>> PROVE SampleInv'
  BY <1>11, SampleInvFrame
<1> QED
  BY <1>1, <1>2, <1>3, <1>4, <1>5, <1>6, <1>7, <1>8, <1>9, <1>10, <1>11

\* A response of the receive thread finds its entry in mMessagesInProgress,
\* and it is the entry of the request it answers.
LEMMA AnswersStep ==
    IInv /\ [Next]_vars => SameInstanceAnswers' /\ OwnIdsAreKnown'
<1>1. ASSUME IInv, NEW i \in DOMAIN fromRust, IncommingMsg(i)
      PROVE  SameInstanceAnswers' /\ OwnIdsAreKnown'
  <2> DEFINE s == fromRust[i]
  <2>1. s \in GoodReplies
    BY <1>1 DEF IInv, SampleInv
  <2>2. CASE CallApp(s)
    BY <1>1, <2>2 DEF IInv, CallApp, SameInstanceAnswers, OwnIdsAreKnown
  <2>3. CASE Respond(s)
    <3>1. s.type = "MESSAGE"
      BY <2>1, <2>3, CallsAssumption DEF Respond, GoodReplies, GoodSamples, Samples
    <3>2. s.inst = instance => [id |-> s.id, request |-> s.request] \in mMessagesInProgress
      BY <2>1, <3>1 DEF GoodReplies, GoodSamples, Good
    <3>3. OwnIdsAreKnown'
      BY <1>1, <2>3, <3>2 DEF IInv, Respond, OwnIdsAreKnown
    <3>4. ASSUME NEW a \in answers', a.from = a.by PROVE a.request = a.reply
      <4>1. CASE a \in answers
        BY <1>1, <3>4, <4>1 DEF IInv, SameInstanceAnswers
      <4>2. CASE a \notin answers
        <5>1. PICK m \in mMessagesInProgress :
                 /\ m.id = s.id
                 /\ a = [request |-> m.request, reply |-> s.request, from |-> s.inst, by |-> instance]
          BY <2>3, <3>4, <4>2 DEF Respond
        <5>2. m = [id |-> s.id, request |-> s.request]
          BY <1>1, <3>2, <3>4, <5>1 DEF IInv, MapInv
        <5> QED
          BY <5>1, <5>2
      <4> QED
        BY <4>1, <4>2
    <3> QED
      BY <3>3, <3>4 DEF SameInstanceAnswers
  <2> QED
    BY <1>1, <2>2, <2>3 DEF IncommingMsg
<1>2. ASSUME IInv, UNCHANGED <<answers, terminated>>
      PROVE  SameInstanceAnswers' /\ OwnIdsAreKnown'
  BY <1>2 DEF IInv, SameInstanceAnswers, OwnIdsAreKnown
<1>3. ASSUME IInv, MainSporadicWake
      PROVE  SameInstanceAnswers' /\ OwnIdsAreKnown'
  BY <1>3 DEF IInv, SameInstanceAnswers, OwnIdsAreKnown, MainSporadicWake, clientVars
<1>4. ASSUME [Next]_vars, ~MainSporadicWake, \A i \in DOMAIN fromRust : ~IncommingMsg(i)
      PROVE  UNCHANGED <<answers, terminated>>
  BY <1>4 DEF Next, Main, Starter, Callbacks, CallbackRest, Receive, GatewayWork, GatewayLife,
       MainWait, StopApp, StopReceiving, JoinRecv, JoinStarter, Construct,
       InitTunnel, Spawn, Notify, RoutingInit, StarterRun, StarterReturns, FromSomeip, Emplace,
       SendToGateway, ServiceStateChanged, RecvInternal, FromGatewayEmpty,
       GatewayStart, GatewayAnnounce, GatewayCrash, GatewayAsk, GatewayReceive,
       vars, mainVars, clientVars
<1> QED
  BY <1>1, <1>2, <1>3, <1>4

\* IInv holds in the initial state ...
LEMMA InitIInv == Init => IInv
<1> SUFFICES ASSUME Init PROVE IInv
  OBVIOUS
<1>1. ThreadTypeOK
  BY DEF Init, ThreadTypeOK, Alive
<1>2. FlagTypeOK
  BY DEF Init, FlagTypeOK
<1>3. callback.step = "idle"
  BY DEF Init, Idle, Callback
<1>4. DataTypeOK
  BY <1>3, MaxTogglesAssumption DEF Init, DataTypeOK
<1>5. BufferTypeOK
  BY DEF Init, BufferTypeOK
<1>6. ThreadInv /\ MapInv
  BY <1>3 DEF Init, ThreadInv, MapInv
<1>7. SampleInv
  BY <1>3 DEF Init, SampleInv
<1> QED
  BY <1>1, <1>2, <1>4, <1>5, <1>6, <1>7 DEF Init, IInv, TypeOK, SameInstanceAnswers, OwnIdsAreKnown

\* ... and every step preserves it.
LEMMA NextIInv == IInv /\ [Next]_vars => IInv'
<1> SUFFICES ASSUME IInv, [Next]_vars PROVE IInv'
  OBVIOUS
<1>1. ThreadTypeOK' /\ FlagTypeOK' /\ DataTypeOK'
  BY ThreadTypeOKStep, FlagTypeOKStep, DataTypeOKStep DEF IInv
<1>2. ThreadInv' /\ MapInv' /\ SampleInv'
  BY ThreadInvStep, MapInvStep, SampleInvStep DEF IInv
<1>3. GoodSamples' \subseteq Samples /\ GoodReplies' \subseteq Samples
  BY DEF GoodSamples, GoodReplies, Samples
<1>4. BufferTypeOK'
  BY <1>2, <1>3, SeqMonotonic DEF SampleInv, BufferTypeOK, Samples
<1> QED
  BY <1>1, <1>2, <1>4, AnswersStep DEF IInv, TypeOK

\* The inductive invariant holds in every reachable state.
THEOREM Invariance == Spec => []IInv
BY InitIInv, NextIInv, PTL DEF Spec

\* Every variable keeps its type, whatever the buffers, requests and pids.
THEOREM TypeCorrect == Spec => []TypeOK
<1>1. IInv => TypeOK
  BY DEF IInv
<1> QED
  BY <1>1, Invariance, PTL

\* When main replaces the SomeipTunnel none of its threads is alive: neither
\* mRecv nor start() nor a callback (someip_tunnel.cpp:81-88).
THEOREM Replacement == Spec => []QuietAtReplacement
<1>1. IInv => QuietAtReplacement
  BY DEF IInv, ThreadInv, QuietAtReplacement
<1> QED
  BY <1>1, Invariance, PTL

\* A response sent for a message of the same instance goes to the request it
\* answers (fromSomeip and incommingMsg agree on mMessagesInProgress).
THEOREM Correlation == Spec => []SameInstanceAnswers
<1>1. IInv => SameInstanceAnswers
  BY DEF IInv
<1> QED
  BY <1>1, Invariance, PTL

\* mMessagesInProgress.at() never throws for a message of the same instance.
THEOREM NoUnknownId == Spec => []OwnIdsAreKnown
<1>1. IInv => OwnIdsAreKnown
  BY DEF IInv
<1> QED
  BY <1>1, Invariance, PTL

\* Once "Routing" owns the routing manager no gateway restart takes it away.
THEOREM RoutingKept == Spec => RoutingStays
<1>1. [Next]_vars => (host = "Routing" => host' = "Routing")
  BY DEF Next, Main, Starter, Callbacks, CallbackRest, Receive, GatewayWork, GatewayLife,
         MainWait, MainSporadicWake, StopApp, StopReceiving, JoinRecv, JoinStarter, Construct,
         InitTunnel, Spawn, Notify, RoutingInit, StarterRun, StarterReturns, FromSomeip, Emplace,
         SendToGateway, ServiceStateChanged, RecvInternal, FromGatewayEmpty, IncommingMsg,
         GatewayStart, GatewayAnnounce, GatewayCrash, GatewayAsk, GatewayReceive,
         vars, mainVars
<1>2. QED
  BY <1>1, PTL DEF Spec, RoutingStays

============================================================================
