------------------------------- MODULE Tunnel -------------------------------
(***************************************************************************)
(* The tunnel process (examples/tunnel): its main loop, the SomeipTunnel   *)
(* it rebuilds whenever a gateway with another pid announces itself, the   *)
(* thread that receives from the gateway, the vsomeip callbacks that send  *)
(* to it, and the two iceoryx2 services between them.                      *)
(*                                                                         *)
(* Threads: main (mainPc), the receive thread mRecv (recv), the thread     *)
(* that runs SomeipTunnel::start (starter), a vsomeip dispatcher thread    *)
(* inside one of the two callbacks (callback; mToGatewayMutex admits one), *)
(* and the thread of the "Routing" application (host).  External: the      *)
(* gateway process, iceoryx2 and the SOME/IP clients.                      *)
(***************************************************************************)
EXTENDS PubSub

CONSTANTS
    Pids,          \* pids of the gateway processes, started one after the other
    Requests,      \* SOME/IP messages the clients send, each once
    NoRequest,     \* what a sample that is no MESSAGE carries
    Calls,         \* the calls into vsomeip a gateway asks for, each once
    MaxToggles     \* bound on the availability changes vsomeip reports

ASSUME PidsAssumption == Pids \subseteq Nat \ {0}
ASSUME RequestsAssumption == NoRequest \notin Requests
ASSUME CallsAssumption == Calls \subseteq {"OFFER_SERVICE", "FIND_SERVICE", "EVENT"}
ASSUME MaxTogglesAssumption == MaxToggles \in Nat

VARIABLES
    (* main() *)
    mainPc,              \* where main is
    currentPid,          \* pid of the gateway served, 0 at first
    lifetime,            \* pids pending on the LifetimeFromGateway listener
    host,                \* application that owns the routing manager
    routing,             \* has the "Routing" application run init()?
    terminated,          \* why the process ended, "no" while it runs
    (* the SomeipTunnel main owns *)
    instance,            \* how many SomeipTunnels were built, 0: none yet
    app,                 \* life of mApp
    starter,             \* thread running start()
    recv,                \* thread mRecv
    mShallRun,
    mMessagesInProgress, \* id -> request, as a set of pairs
    drawn,               \* how many ids mDist(mGen) produced
    callback,            \* the dispatcher thread that holds mToGatewayMutex
    sent,                \* history of the publisher mToGateway
    fromRust,            \* buffer of the subscriber mFromGateway
    accepted,            \* what the gateway asked for and mApp took over
    dropped,             \* what it asked for while mApp had no routing_
    toggles,             \* availability changes reported so far
    (* the gateway process *)
    gateway,             \* its pid and phase
    toRust,              \* buffer of its TunnelToRust subscriber
    linked,              \* has this instance's publisher met that subscriber?
    published,           \* history of its TunnelFromRust publisher
    delivered,           \* has that publisher met the current subscriber?
    (* SOME/IP clients *)
    arrived,             \* requests handed to fromSomeip
    answers              \* responses mApp sent

mainVars    == <<mainPc, currentPid, lifetime, host, routing, terminated>>
threadVars  == <<instance, app, starter, recv, mShallRun>>
mapVars     == <<mMessagesInProgress, drawn, callback, sent, toggles>>
recvVars    == <<fromRust, accepted, dropped>>
gatewayVars == <<gateway, toRust, linked, published, delivered>>
clientVars  == <<arrived, answers>>
vars        == <<mainVars, threadVars, mapVars, recvVars, gatewayVars, clientVars>>

-----------------------------------------------------------------------------
\* Mutant: the same id for every message.
ConstantId(inst, n) == 1

(* The n-th value of mDist(mGen) in a given SomeipTunnel.  mGen is default *)
(* seeded (mRd is never drawn from), so every instance draws the same      *)
(* sequence; the values of one instance are taken to be distinct.          *)
mDist(inst, n) == n

Sample(type, id, request, inst, pub) ==
    [type |-> type, id |-> id, request |-> request, inst |-> inst, pub |-> pub]

\* What a callback holding mToGatewayMutex is doing, and with which sample.
Callback(step, sample) == [step |-> step, sample |-> sample]
Idle == Callback("idle", Sample("none", 0, NoRequest, 0, 0))

Alive == gateway.phase # "dead"
Running == terminated = "no"

Init ==
    /\ mainPc = "wait" /\ currentPid = 0 /\ lifetime = {}
    /\ host = "none" /\ routing = FALSE /\ terminated = "no"
    /\ instance = 0 /\ app = "none" /\ starter = "done" /\ recv = "done" /\ mShallRun = FALSE
    /\ mMessagesInProgress = {} /\ drawn = 0 /\ callback = Idle /\ sent = <<>> /\ toggles = 0
    /\ fromRust = <<>> /\ accepted = {} /\ dropped = {}
    /\ gateway = [pid |-> 0, phase |-> "dead", asked |-> {}]
    /\ toRust = <<>> /\ linked = FALSE /\ published = <<>> /\ delivered = FALSE
    /\ arrived = {} /\ answers = {}

-----------------------------------------------------------------------------
(* main()                                                                  *)

\* blocking_wait_one() returns a pid.
MainWait(p) ==
    /\ Running
    /\ mainPc = "wait" /\ p \in lifetime
    /\ lifetime' = lifetime \ {p}
    /\ currentPid' = p
    /\ mainPc' = IF p = currentPid THEN "wait"
                 ELSE IF instance > 0 THEN "stop" ELSE "construct"
    /\ UNCHANGED <<host, routing, terminated, threadVars, mapVars, recvVars, gatewayVars, clientVars>>

\* It may also return without an event; event->value() of an empty optional
\* ends the process.
MainSporadicWake ==
    /\ Running
    /\ mainPc = "wait"
    /\ terminated' = "sporadic"
    /\ UNCHANGED <<mainPc, currentPid, lifetime, host, routing,
                   threadVars, mapVars, recvVars, gatewayVars, clientVars>>

\* tunnel->stop(): mApp->stop() ...
StopApp ==
    /\ Running
    /\ mainPc = "stop" /\ mainPc' = "blocked"
    /\ app' = "stopping"
    /\ UNCHANGED <<currentPid, lifetime, host, routing, terminated,
                   instance, starter, recv, mShallRun, mapVars, recvVars, gatewayVars, clientVars>>

\* Mutant: stop() joins mRecv without telling it to end.
StopKeepsReceiving ==
    /\ Running
    /\ mainPc = "blocked" /\ mainPc' = "joinRecv"
    /\ UNCHANGED <<currentPid, lifetime, host, routing, terminated,
                   threadVars, mapVars, recvVars, gatewayVars, clientVars>>

\* ... returns when start() does or after a second, whichever comes first ...
StopReceiving ==
    /\ Running
    /\ mainPc = "blocked" /\ mainPc' = "joinRecv"
    /\ mShallRun' = FALSE
    /\ UNCHANGED <<currentPid, lifetime, host, routing, terminated,
                   instance, app, starter, recv, mapVars, recvVars, gatewayVars, clientVars>>

\* Mutant: mRecv.detach() in place of mRecv.join().
DetachRecv ==
    /\ Running
    /\ mainPc = "joinRecv" /\ mainPc' = "joinStarter"
    /\ UNCHANGED <<currentPid, lifetime, host, routing, terminated,
                   threadVars, mapVars, recvVars, gatewayVars, clientVars>>

\* ... mRecv.join()
JoinRecv ==
    /\ Running
    /\ mainPc = "joinRecv" /\ recv = "done"
    /\ mainPc' = "joinStarter"
    /\ UNCHANGED <<currentPid, lifetime, host, routing, terminated,
                   threadVars, mapVars, recvVars, gatewayVars, clientVars>>

\* thread.join()
JoinStarter ==
    /\ Running
    /\ mainPc = "joinStarter" /\ starter = "done"
    /\ mainPc' = "construct"
    /\ UNCHANGED <<currentPid, lifetime, host, routing, terminated,
                   threadVars, mapVars, recvVars, gatewayVars, clientVars>>

\* Mutant: the old tunnel always removes the lock of the routing manager.
ConstructUnlocks ==
    /\ Running
    /\ mainPc = "construct" /\ mainPc' = "init"
    /\ instance' = instance + 1
    /\ app' = "created" /\ recv' = "waiting" /\ mShallRun' = TRUE
    /\ host' = "none"
    /\ mMessagesInProgress' = {} /\ drawn' = 0 /\ sent' = <<>>
    /\ fromRust' = <<>> /\ accepted' = {}
    /\ linked' = FALSE /\ delivered' = FALSE
    /\ UNCHANGED <<currentPid, lifetime, routing, terminated, starter, callback, toggles,
                   dropped, gateway, toRust, published, clientVars>>

\* tunnel.reset(new SomeipTunnel(runtime)): the constructor starts mRecv; the
\* old tunnel goes, and with it the routing manager if it owned that.
Construct ==
    /\ Running
    /\ mainPc = "construct" /\ mainPc' = "init"
    /\ instance' = instance + 1
    /\ app' = "created" /\ recv' = "waiting" /\ mShallRun' = TRUE
    /\ host' = IF host = "Tunnel" THEN "none" ELSE host
    /\ mMessagesInProgress' = {} /\ drawn' = 0 /\ sent' = <<>>
    /\ fromRust' = <<>> /\ accepted' = {}
    /\ linked' = FALSE /\ delivered' = FALSE
    /\ UNCHANGED <<currentPid, lifetime, routing, terminated, starter, callback, toggles,
                   dropped, gateway, toRust, published, clientVars>>

\* tunnel->init().  The configuration names no routing host, so the first
\* application to be initialised becomes it.
InitTunnel ==
    /\ Running
    /\ mainPc = "init" /\ mainPc' = "spawn"
    /\ app' = "initialised"
    /\ host' = IF host = "none" THEN "Tunnel" ELSE host
    /\ UNCHANGED <<currentPid, lifetime, routing, terminated,
                   instance, starter, recv, mShallRun, mapVars, recvVars, gatewayVars, clientVars>>

Spawn ==
    /\ Running
    /\ mainPc = "spawn" /\ mainPc' = "notify"
    /\ starter' = "spawned"
    /\ UNCHANGED <<currentPid, lifetime, host, routing, terminated,
                   instance, app, recv, mShallRun, mapVars, recvVars, gatewayVars, clientVars>>

\* notifier.notify() reaches whichever gateway listens.
Notify ==
    /\ Running
    /\ mainPc = "notify" /\ mainPc' = "wait"
    /\ gateway' = IF Alive THEN [gateway EXCEPT !.phase = "ready"] ELSE gateway
    /\ UNCHANGED <<currentPid, lifetime, host, routing, terminated, threadVars, mapVars, recvVars,
                   toRust, linked, published, delivered, clientVars>>

\* The thread of the "Routing" application: init() and start().
RoutingInit ==
    /\ Running
    /\ ~routing /\ routing' = TRUE
    /\ host' = IF host = "none" THEN "Routing" ELSE host
    /\ UNCHANGED <<mainPc, currentPid, lifetime, terminated,
                   threadVars, mapVars, recvVars, gatewayVars, clientVars>>

-----------------------------------------------------------------------------
(* SomeipTunnel::start() in its own thread                                 *)

\* mApp->start() runs, or returns at once when stop() came first.
StarterRun ==
    /\ Running
    /\ starter = "spawned"
    /\ IF app = "stopping" THEN starter' = "done" /\ app' = "stopped"
                           ELSE starter' = "running" /\ app' = "running"
    /\ UNCHANGED <<mainVars, instance, recv, mShallRun, mapVars, recvVars, gatewayVars, clientVars>>

\* The shutdown joined the dispatchers: start() returns, clear_all_handler().
StarterReturns ==
    /\ Running
    /\ starter = "running" /\ app = "stopping" /\ callback = Idle
    /\ starter' = "done" /\ app' = "stopped"
    /\ UNCHANGED <<mainVars, instance, recv, mShallRun, mapVars, recvVars, gatewayVars, clientVars>>

-----------------------------------------------------------------------------
(* The callbacks, on vsomeip's dispatcher threads, under mToGatewayMutex   *)

\* fromSomeip: the sample is filled, its id drawn ...
FromSomeip(r) ==
    /\ Running
    /\ starter = "running" /\ callback = Idle
    /\ accepted # {} /\ r \notin arrived
    /\ arrived' = arrived \cup {r}
    /\ drawn' = drawn + 1
    /\ callback' = Callback("emplace",
                       Sample("MESSAGE", mDist(instance, drawn + 1), r, instance, instance))
    /\ UNCHANGED <<mainVars, threadVars, mMessagesInProgress, sent, toggles,
                   recvVars, gatewayVars, answers>>

\* ... the request is remembered, unless its id is taken ...
Emplace ==
    /\ Running
    /\ callback.step = "emplace"
    /\ LET s == callback.sample IN
       /\ mMessagesInProgress' =
             IF \E m \in mMessagesInProgress : m.id = s.id THEN mMessagesInProgress
             ELSE mMessagesInProgress \cup {[id |-> s.id, request |-> s.request]}
       /\ callback' = Callback("send", s)
    /\ UNCHANGED <<mainVars, threadVars, drawn, sent, toggles, recvVars, gatewayVars, clientVars>>

\* ... and the sample is sent.
SendToGateway ==
    /\ Running
    /\ callback.step = "send" /\ callback' = Idle
    /\ LET s == callback.sample IN
       /\ sent' = Remember(sent, s)
       /\ IF Alive THEN toRust' = Deliver(toRust, sent, linked, s) /\ linked' = TRUE
                   ELSE UNCHANGED <<toRust, linked>>
    /\ UNCHANGED <<mainVars, threadVars, mMessagesInProgress, drawn, toggles, recvVars,
                   gateway, published, delivered, clientVars>>

\* serviceStateChanged reports a service the gateway asked for.
ServiceStateChanged ==
    /\ Running
    /\ starter = "running" /\ callback = Idle
    /\ "FIND_SERVICE" \in accepted /\ toggles < MaxToggles
    /\ toggles' = toggles + 1
    /\ callback' = Callback("send", Sample("FIND_SERVICE_ACK", 0, NoRequest, instance, instance))
    /\ UNCHANGED <<mainVars, threadVars, mMessagesInProgress, drawn, sent,
                   recvVars, gatewayVars, clientVars>>

-----------------------------------------------------------------------------
(* The receive thread                                                      *)

\* mNode.wait(CYCLE_TIME) is over: recvInternal drains or ends.
RecvInternal ==
    /\ Running
    /\ recv = "waiting"
    /\ recv' = IF mShallRun THEN "draining" ELSE "done"
    /\ UNCHANGED <<mainVars, instance, app, starter, mShallRun, mapVars, recvVars, gatewayVars, clientVars>>

\* Mutant: the thread ends with the first empty poll.
FromGatewayEnds ==
    /\ Running
    /\ recv = "draining" /\ fromRust = <<>>
    /\ recv' = "done"
    /\ UNCHANGED <<mainVars, instance, app, starter, mShallRun, mapVars, recvVars, gatewayVars, clientVars>>

\* fromGateway found no sample.
FromGatewayEmpty ==
    /\ Running
    /\ recv = "draining" /\ fromRust = <<>>
    /\ recv' = "waiting"
    /\ UNCHANGED <<mainVars, instance, app, starter, mShallRun, mapVars, recvVars, gatewayVars, clientVars>>

\* OFFER_SERVICE, FIND_SERVICE and EVENT are calls into mApp, which ignores
\* them as long as it has no routing_, that is before init().
CallApp(s) ==
    /\ s.type \in Calls
    /\ IF app = "created"
       THEN /\ dropped' = dropped \cup {[type |-> s.type, pid |-> s.pub, by |-> instance]}
            /\ UNCHANGED accepted
       ELSE /\ accepted' = accepted \cup {s.type}
            /\ UNCHANGED dropped
    /\ UNCHANGED <<answers, terminated>>

\* The other types are responses.  mMessagesInProgress.at(header.id) throws
\* when the id is not there, which ends the process.  It takes no lock: read
\* while a callback is inside emplace it may also miss an entry.  mApp sends
\* while it runs, and may still do so while it is being stopped.
Respond(s) ==
    /\ s.type \in {"OFFER_SERVICE_ACK", "FIND_SERVICE_ACK", "MESSAGE"}
    /\ \/ \E m \in mMessagesInProgress :
             /\ m.id = s.id
             /\ \/ /\ app \in {"running", "stopping"}
                   /\ answers' = answers \cup {[request |-> m.request, reply |-> s.request,
                                               from |-> s.inst, by |-> instance]}
                \/ /\ app # "running"
                   /\ UNCHANGED answers
             /\ UNCHANGED terminated
       \/ /\ \A m \in mMessagesInProgress : m.id # s.id
          /\ terminated' = IF s.inst = instance THEN "unknown" ELSE "stale"
          /\ UNCHANGED answers
       \/ /\ callback.step = "emplace"
          /\ terminated' = "race"
          /\ UNCHANGED answers
    /\ UNCHANGED <<accepted, dropped>>

IncommingMsg(i) ==
    /\ Running
    /\ recv = "draining" /\ i \in Receivable(fromRust)
    /\ fromRust' = RemoveAt(fromRust, i)
    /\ CallApp(fromRust[i]) \/ Respond(fromRust[i])
    /\ UNCHANGED <<mainPc, currentPid, lifetime, host, routing, threadVars, mapVars, gatewayVars, arrived>>

-----------------------------------------------------------------------------
(* The gateway process, external                                           *)

\* It opens its services, announces its pid and waits for the notification.
GatewayStart(p) ==
    /\ Running
    /\ gateway.phase = "dead" /\ p > gateway.pid
    /\ gateway' = [pid |-> p, phase |-> "waiting", asked |-> {}]
    /\ lifetime' = lifetime \cup {p}
    /\ UNCHANGED <<mainPc, currentPid, host, routing, terminated, threadVars, mapVars, recvVars,
                   toRust, linked, published, delivered, clientVars>>

\* It may announce itself again.
GatewayAnnounce ==
    /\ Running
    /\ Alive
    /\ lifetime' = lifetime \cup {gateway.pid}
    /\ UNCHANGED <<mainPc, currentPid, host, routing, terminated, threadVars, mapVars, recvVars,
                   gatewayVars, clientVars>>

GatewayCrash ==
    /\ Running
    /\ Alive
    /\ gateway' = [gateway EXCEPT !.phase = "dead"]
    /\ toRust' = <<>> /\ linked' = FALSE /\ published' = <<>> /\ delivered' = FALSE
    /\ UNCHANGED <<mainVars, threadVars, mapVars, recvVars, clientVars>>

\* It publishes a sample on TunnelFromRust.
Publish(s) ==
    /\ published' = Remember(published, s)
    /\ IF instance > 0 THEN fromRust' = Deliver(fromRust, published, delivered, s) /\ delivered' = TRUE
                       ELSE UNCHANGED <<fromRust, delivered>>

GatewayAsk(type) ==
    /\ Running
    /\ gateway.phase = "ready" /\ type \notin gateway.asked
    /\ gateway' = [gateway EXCEPT !.asked = @ \cup {type}]
    /\ Publish(Sample(type, 0, NoRequest, instance, gateway.pid))
    /\ UNCHANGED <<mainVars, threadVars, mapVars, accepted, dropped, toRust, linked, clientVars>>

\* It receives a sample: it answers a MESSAGE under its id, notes the others.
GatewayReceive(i) ==
    /\ Running
    /\ gateway.phase = "ready" /\ i \in Receivable(toRust)
    /\ toRust' = RemoveAt(toRust, i)
    /\ IF toRust[i].type = "MESSAGE"
       THEN Publish(Sample("MESSAGE", toRust[i].id, toRust[i].request, toRust[i].inst, gateway.pid))
       ELSE UNCHANGED <<published, fromRust, delivered>>
    /\ UNCHANGED <<mainVars, threadVars, mapVars, accepted, dropped, gateway, linked, clientVars>>

-----------------------------------------------------------------------------
Main ==
    \/ \E p \in Pids : MainWait(p)
    \/ StopApp \/ StopReceiving \/ JoinRecv \/ JoinStarter
    \/ Construct \/ InitTunnel \/ Spawn \/ Notify

Starter == StarterRun \/ StarterReturns

Callbacks ==
    \/ \E r \in Requests : FromSomeip(r)
    \/ ServiceStateChanged

CallbackRest == Emplace \/ SendToGateway

Receive ==
    \/ RecvInternal \/ FromGatewayEmpty
    \/ \E i \in DOMAIN fromRust : IncommingMsg(i)

GatewayWork ==
    \/ \E t \in Calls : GatewayAsk(t)
    \/ \E i \in DOMAIN toRust : GatewayReceive(i)

GatewayLife ==
    \/ \E p \in Pids : GatewayStart(p)
    \/ GatewayAnnounce \/ GatewayCrash

Next ==
    \/ Main \/ MainSporadicWake \/ RoutingInit \/ Starter \/ Callbacks \/ CallbackRest
    \/ Receive \/ GatewayWork \/ GatewayLife

(* Threads that can run do run.  main waits for its events in              *)
(* blocking_wait_one, the receive thread wakes every CYCLE_TIME, a         *)
(* callback once begun runs to its end, start() notices stop().  Nothing   *)
(* obliges clients to send or a gateway to start, crash or ask; a gateway  *)
(* that is ready does serve its subscriber.                                *)
Fairness ==
    /\ WF_vars(Main)
    /\ WF_vars(Starter)
    /\ WF_vars(CallbackRest)
    /\ WF_vars(Receive)
    /\ WF_vars(\E i \in DOMAIN toRust : GatewayReceive(i))

Spec == Init /\ [][Next]_vars
FairSpec == Spec /\ Fairness

-----------------------------------------------------------------------------
(* Properties                                                              *)

Samples == [type : Calls \cup {"MESSAGE", "FIND_SERVICE_ACK"}, id : Nat,
            request : Requests \cup {NoRequest}, inst : Nat, pub : Nat]

\* Every variable has its type: the state of main and of the tunnel's threads ...
ThreadTypeOK ==
    /\ mainPc \in {"wait", "stop", "blocked", "joinRecv", "joinStarter",
                   "construct", "init", "spawn", "notify"}
    /\ currentPid \in Pids \cup {0} /\ lifetime \subseteq Pids
    /\ host \in {"none", "Routing", "Tunnel"}
    /\ terminated \in {"no", "sporadic", "unknown", "stale", "race"}
    /\ instance \in Nat
    /\ app \in {"none", "created", "initialised", "running", "stopping", "stopped"}
    /\ starter \in {"spawned", "running", "done"}
    /\ recv \in {"waiting", "draining", "done"}
    /\ gateway \in [pid : Pids \cup {0}, phase : {"dead", "waiting", "ready"}, asked : SUBSET Calls]
    /\ Alive => gateway.pid \in Pids

FlagTypeOK ==
    /\ routing \in BOOLEAN /\ mShallRun \in BOOLEAN
    /\ linked \in BOOLEAN /\ delivered \in BOOLEAN

\* ... what passes through the tunnel ...
DataTypeOK ==
    /\ mMessagesInProgress \subseteq [id : Nat, request : Requests]
    /\ drawn \in Nat /\ toggles \in 0..MaxToggles
    /\ callback = Idle \/ callback \in [step : {"emplace", "send"}, sample : Samples]
    /\ callback.step = "emplace" => callback.sample.request \in Requests
    /\ accepted \subseteq Calls
    /\ dropped \subseteq [type : Calls, pid : Nat, by : Nat]
    /\ arrived \subseteq Requests
    /\ answers \subseteq [request : Requests, reply : Requests \cup {NoRequest},
                          from : Nat, by : Nat]

\* ... and the buffers and histories.
BufferTypeOK ==
    /\ sent \in Seq(Samples) /\ fromRust \in Seq(Samples)
    /\ toRust \in Seq(Samples) /\ published \in Seq(Samples)

TypeOK == ThreadTypeOK /\ FlagTypeOK /\ DataTypeOK /\ BufferTypeOK

\* No thread of the old SomeipTunnel is left when main replaces it: neither
\* mRecv, nor the one in start(), nor a dispatcher in a callback that has
\* `this` bound (someip_tunnel.cpp:81-88).
QuietAtReplacement ==
    mainPc = "construct" => recv = "done" /\ starter = "done" /\ callback = Idle

\* A response to a MESSAGE of the same instance is sent for the request
\* that was forwarded under that id (fromSomeip and incommingMsg agree).
SameInstanceAnswers ==
    \A a \in answers : a.from = a.by => a.request = a.reply

\* mMessagesInProgress.at() throws only for responses to a message of an
\* earlier instance: the id is emplaced before the sample is sent.
OwnIdsAreKnown == terminated # "unknown"

\* Once the "Routing" application is the routing manager, no restart of the
\* gateway takes the routing manager away.
RoutingStays == [][host = "Routing" => host' = "Routing"]_vars

\* A gateway that announced itself and lives on is told that the tunnel is
\* ready, unless the process ends: stop() and the two joins all return.
GatewayServed ==
    gateway.phase = "waiting" ~> (gateway.phase # "waiting" \/ ~Running)

\* A request that an instance forwards is answered, unless the gateway dies,
\* main replaces the instance, or the process ends (with buffers large enough
\* that iceoryx2 overwrites no sample).
RequestAnswered ==
    \A r \in Requests, i \in 1..Cardinality(Pids) :
        callback.sample.request = r /\ callback.sample.inst = i ~>
            \/ \E a \in answers : a.request = r
            \/ instance # i \/ ~Alive \/ ~Running

\* README.md:70: the tunnel will "send them as SOME/IP responses or service
\* offers": no offer is dropped because mApp is not initialised yet.
OffersReachRouting == \A d \in dropped : d.type # "OFFER_SERVICE"

-----------------------------------------------------------------------------
(* The inductive invariant behind QuietAtReplacement, SameInstanceAnswers  *)
(* and OwnIdsAreKnown.                                                     *)

\* Which threads of the tunnel can be alive where main is.
ThreadInv ==
    /\ instance = 0 => recv = "done" /\ starter = "done" /\ mainPc \in {"wait", "construct"}
    /\ mainPc \in {"joinStarter", "construct"} => recv = "done"
    /\ mainPc \in {"construct", "init", "spawn"} => starter = "done"
    /\ callback # Idle => starter = "running"

\* The messages in progress are a map from the ids drawn so far; the id of a
\* callback about to emplace is not among its keys.
MapInv ==
    /\ \A m \in mMessagesInProgress : m.id \in 1..drawn
    /\ \A m, n \in mMessagesInProgress : m.id = n.id => m = n
    /\ callback.step = "emplace" =>
           /\ callback.sample.id = drawn /\ drawn > 0
           /\ \A m \in mMessagesInProgress : m.id # drawn

\* What is known of a sample: one that carries a message of this instance
\* belongs to an entry of mMessagesInProgress.
Good(s) ==
    /\ s.inst <= instance
    /\ s.type = "MESSAGE" /\ s.inst = instance =>
           [id |-> s.id, request |-> s.request] \in mMessagesInProgress

GoodSamples == {s \in Samples : Good(s)}
GoodReplies == {s \in GoodSamples : s.type # "FIND_SERVICE_ACK"}

SampleInv ==
    /\ sent \in Seq(GoodSamples) /\ toRust \in Seq(GoodSamples)
    /\ fromRust \in Seq(GoodReplies) /\ published \in Seq(GoodReplies)
    /\ callback.step = "emplace" => callback.sample.type = "MESSAGE" /\ callback.sample.inst = instance
    /\ callback.step = "send" => Good(callback.sample)

IInv ==
    /\ TypeOK /\ ThreadInv /\ MapInv /\ SampleInv
    /\ SameInstanceAnswers /\ OwnIdsAreKnown
============================================================================
