----------------------------- MODULE LocalOffers -----------------------------
(***************************************************************************)
(* How the routing manager host keeps the offer of one service instance by  *)
(* local applications: the serialised offer commands, the stop of an offer  *)
(* that waits for its server endpoint, the ping of a former provider, and   *)
(* the deregistration of applications (routing_manager_impl.cpp,            *)
(* routing_manager_base.cpp, routing_manager_stub.cpp), with the server     *)
(* endpoint of the service and its stop handlers (server_endpoint_impl.cpp, *)
(* endpoint_manager_impl.cpp).                                              *)
(*                                                                          *)
(* All applications offer the instance with the same version.  Two io       *)
(* threads run what is posted, so the first two posted tasks may change     *)
(* places; every handler runs under its locks and is one step.  The field   *)
(* history of the state is not in the code: it names the schedules the      *)
(* serialisation of the commands does not cover.                            *)
(*   "reused"     an offer took an endpoint that was being stopped          *)
(*   "foreign"    a stop was made by an application that is not the         *)
(*                provider                                                  *)
(*   "overlapped" a deregistration, which is not serialised, stopped the    *)
(*                offer while a command was processed                       *)
(*   "ghost"      a queued offer was made for an application that had been  *)
(*                deregistered                                              *)
(***************************************************************************)
EXTENDS Naturals, Sequences, FiniteSets, SequencesExt

CONSTANTS Clients,           \* the applications
          MaxCommands,       \* offers, stop-offers and (de)registrations they send
          MaxFailures,       \* crashes and pongs that are late
          MaxSent            \* messages written to the endpoint of the service

ASSUME OffersAssumption == {MaxCommands, MaxFailures, MaxSent} \subseteq Nat

VARIABLES rm,        \* the state of the routing manager host, a record
          apps,      \* what each application is: up, registering or down
          errors,    \* applications whose endpoint error is not handled yet
          pongs,     \* pings that may still be answered
          commands, failures, sent

offerVars == <<rm, apps, errors, pongs, commands, failures, sent>>

-----------------------------------------------------------------------------
(* The server endpoint and the endpoint manager.                            *)

Note(r, what, when) == IF when THEN [r EXCEPT !.history = @ \cup {what}] ELSE r

\* boost::asio::post(io_, ...).
PostIo(r, task) == [r EXCEPT !.io_ = Append(@, task)]

\* server_endpoint_impl::prepare_stop() for the service: the callback waits for
\* the messages in the queue.
PrepareStop(r, e, stop) ==
    IF r.endpoints[e].queue_
    THEN [r EXCEPT !.endpoints[e].prepare_stop_handlers_.service = {stop}]
    ELSE PostIo(r, [task |-> "callback", stop |-> stop, ep |-> e])

\* prepare_stop() with ANY_SERVICE: nothing more is accepted.
PrepareStopAny(r, e) ==
    LET blocked == [r EXCEPT !.endpoints[e].sending_blocked_ = TRUE]
    IN  IF r.endpoints[e].queue_
        THEN [blocked EXCEPT !.endpoints[e].prepare_stop_handlers_.any = TRUE]
        ELSE PostIo(blocked, [task |-> "stop", ep |-> e])

\* send_cbk() after the last message: the stop handlers that waited are posted,
\* check_if_all_msgs_for_stopped_service_are_sent() before
\* check_if_all_queues_are_empty().
Drained(r, e) ==
    LET ep      == r.endpoints[e]
        service == ep.prepare_stop_handlers_.service
        any     == ep.prepare_stop_handlers_.any
        calls   == IF ~ep.sending_blocked_ \/ any THEN service ELSE {}
        emptied == [r EXCEPT !.endpoints[e] =
                      [@ EXCEPT !.queue_ = FALSE,
                                !.prepare_stop_handlers_ =
                                   [service |-> service \ calls,
                                    any |-> any /\ ~ep.sending_blocked_]]]
        tasks   == SetToSeq({[task |-> "callback", stop |-> s, ep |-> e] : s \in calls})
                   \o IF any /\ ep.sending_blocked_ THEN <<[task |-> "stop", ep |-> e]>> ELSE <<>>
    IN  [emptied EXCEPT !.io_ = @ \o tasks]

\* find_or_create_server_endpoint(), by port, with create_server_endpoint().
find_or_create_server_endpoint(r) ==
    LET created == [sending_blocked_ |-> FALSE, queue_ |-> FALSE, open |-> TRUE,
                    prepare_stop_handlers_ |-> [service |-> {}, any |-> FALSE]]
        e     == IF r.server_endpoint # 0 THEN r.server_endpoint ELSE Len(r.endpoints) + 1
        found == [r EXCEPT !.server_endpoint = e,
                           !.endpoints = IF e > Len(@) THEN Append(@, created) ELSE @,
                           !.service_instances_ = @ \cup {e}]
    IN  Note(found, "reused", found.endpoints[e].sending_blocked_)

\* The handler of prepare_stop(ANY_SERVICE): remove_server_endpoint(), which
\* looks at the endpoint that has the port now, and stop().
StopServerEndpoint(r, e) ==
    IF r.server_endpoint # 0 /\ r.server_endpoint \notin r.service_instances_
    THEN [r EXCEPT !.server_endpoint = 0, !.endpoints[e].open = FALSE]
    ELSE r

-----------------------------------------------------------------------------
(* The serialised commands.                                                 *)

\* Mutant: the next command is not started.
EraseOnly(r) ==
    IF r.offer_commands_ = <<>> THEN r ELSE [r EXCEPT !.offer_commands_ = Tail(@)]

\* erase_offer_command(): the processed command, which is the first one, is
\* removed and the next one posted.
erase_offer_command(r) ==
    IF r.offer_commands_ = <<>> THEN r
    ELSE LET rest == Tail(r.offer_commands_)
         IN  IF rest = <<>> THEN [r EXCEPT !.offer_commands_ = <<>>]
             ELSE PostIo([r EXCEPT !.offer_commands_ = rest],
                       [task |-> Head(rest).command, client |-> Head(rest).client])

\* routing_manager_stub::on_offer_service() and on_stop_offer_service().
StubOffer(r, c) == [r EXCEPT !.routing_info_ = @ \cup {c}, !.offering = @ \cup {c}]
StubStopOffer(r, c) == [r EXCEPT !.offering = @ \ {c}]

\* handle_local_offer_service() for a service another client already offers and
\* that may be alive: it is pinged, and the offer is pending until it answers.
MustWait(r, c) ==
    \E old \in r.local_services_ : \/ old = c
                                   \/ r.pending_offers_ # {}
                                   \/ old \in r.local

PingOld(r, c) ==
    LET old == CHOOSE o \in r.local_services_ : TRUE
    IN  IF old = c \/ r.pending_offers_ # {} THEN r
        ELSE [r EXCEPT !.pinged_clients_ = @ \cup {old},
                       !.pending_offers_ = {[client |-> c, old |-> old]}]

\* offer_service() once the command may be processed.
OfferService(r, c) ==
    IF MustWait(r, c) THEN erase_offer_command(PingOld(r, c))
    ELSE LET found == find_or_create_server_endpoint(r)
             local == [found EXCEPT !.local_services_ = {c},
                                    !.services_ = {[endpoint |-> found.server_endpoint]}]
         IN  StubOffer(erase_offer_command(Note(local, "ghost", c \notin r.local)), c)

\* on_stop_offer_service(), also for an application that is not the provider:
\* what the callback captures is a record, with whether a command waits for it.
on_stop_offer_service(r, c, commanded) ==
    LET gone == Note([r EXCEPT !.local_services_ = @ \ {c}],
                     "foreign", r.local_services_ \ {c} # {})
        e    == (CHOOSE i \in r.services_ : TRUE).endpoint
    IN  IF r.services_ = {} THEN StubStopOffer(erase_offer_command(gone), c)
        ELSE PrepareStop(gone, e, [client |-> c, commanded |-> commanded])

\* stop_offer_service() once the command may be processed.
StopOfferService(r, c) ==
    IF r.services_ = {} THEN erase_offer_command(r) ELSE on_stop_offer_service(r, c, TRUE)

\* Mutant: del_routing_info() is forgotten.
KeepRoutingInfo(r, stop, e) ==
    StubStopOffer(erase_offer_command(
        PrepareStopAny([r EXCEPT !.service_instances_ = @ \ {e}], e)), stop.client)

\* The callback: the instance is removed from its endpoint, the endpoint is
\* stopped when nothing uses it any more, and the routing information goes.
StopCallback(r, stop, e) ==
    LET removed == [r EXCEPT !.service_instances_ = @ \ {e}]
        cleared == [PrepareStopAny(removed, e) EXCEPT !.services_ = {}]
    IN  StubStopOffer(erase_offer_command(cleared), stop.client)

\* The stops whose callback has not run yet.
Stops(r) == UNION {r.endpoints[e].prepare_stop_handlers_.service : e \in DOMAIN r.endpoints}
            \cup {r.io_[i].stop : i \in {j \in DOMAIN r.io_ : r.io_[j].task = "callback"}}

\* insert_offer_command(): a command is processed at once when it is the first.
Command(r, command, c) ==
    LET queued == Note([r EXCEPT !.offer_commands_ = Append(@, [command |-> command, client |-> c])],
                       "overlapped", \E stop \in Stops(r) : ~stop.commanded)
    IN  IF r.offer_commands_ # <<>> THEN queued
        ELSE IF command = "offer" THEN OfferService(queued, c)
        ELSE StopOfferService(queued, c)

-----------------------------------------------------------------------------
(* Registration.                                                            *)

\* update_registration(): one entry per client, without repetitions.
update_registration(r, c, type) ==
    LET q == r.pending_client_registrations_queue_
        i == CHOOSE j \in DOMAIN q : q[j].client = c
    IN  IF \E j \in DOMAIN q : q[j].client = c
        THEN IF Last(q[i].types) = type THEN r
             ELSE [r EXCEPT !.pending_client_registrations_queue_[i].types = Append(@, type)]
        ELSE [r EXCEPT !.pending_client_registrations_queue_ =
                Append(@, [client |-> c, types |-> <<type>>])]

\* Mutant: the offers that waited are dropped.
DropWaiting(r, c) ==
    [update_registration(r, c, "DEREGISTER_ON_ERROR")
        EXCEPT !.pending_offers_ = {p \in @ : p.old # c}]

\* handle_client_error(): the client is deregistered later, and the offers
\* that waited for it are made again now.
handle_client_error(r, c) ==
    LET deregistering == update_registration(r, c, "DEREGISTER_ON_ERROR")
        waiting == {p \in r.pending_offers_ : p.old = c}
        taken == [deregistering EXCEPT !.pending_offers_ = @ \ waiting]
    IN  IF waiting = {} THEN deregistering
        ELSE Command(taken, "offer", (CHOOSE p \in waiting : TRUE).client)

\* Mutant: the services of the client are not reported.
DeregisterOnly(r, c) == [r EXCEPT !.routing_info_ = @ \ {c}, !.offering = @ \ {c}]

\* on_deregister_application(): the offers of the client are stopped without
\* an offer command.
on_deregister_application(r, c) ==
    LET erased == [r EXCEPT !.routing_info_ = @ \ {c}, !.offering = @ \ {c}]
    IN  IF c \notin r.offering THEN erased
        ELSE on_stop_offer_service(Note(erased, "overlapped", r.offer_commands_ # <<>>), c, FALSE)

\* remove_client_connections(): remove_local() of the base class.
remove_client_connections(r, c) ==
    [r EXCEPT !.local = @ \ {c}, !.local_services_ = @ \ {c}]

\* registration_func() for one type, with on_register_application(): a client
\* that registers must be reachable.
RegistrationStep(r, c, type, reachable) ==
    LET deregistered == on_deregister_application(r, c)
        registered   == [deregistered EXCEPT !.routing_info_ = @ \cup {c}]
    IN  IF type # "REGISTER" THEN remove_client_connections(deregistered, c)
        ELSE IF reachable THEN [registered EXCEPT !.local = @ \cup {c}]
        ELSE remove_client_connections(registered, c)

\* registration_func(): the loop ends at the first registration that fails.
registration_func(r, c, types, reachable) ==
    LET failed == {i \in DOMAIN types : types[i] = "REGISTER" /\ ~reachable}
        last   == IF failed = {} THEN Len(types) ELSE Min(failed)
    IN  FoldLeft(LAMBDA acc, type : RegistrationStep(acc, c, type, reachable),
                 r, SubSeq(types, 1, last))

-----------------------------------------------------------------------------

OffersInit ==
    /\ rm = [offer_commands_ |-> <<>>, local_services_ |-> {}, services_ |-> {},
             routing_info_ |-> Clients, offering |-> {}, pending_offers_ |-> {},
             pinged_clients_ |-> {}, local |-> Clients,
             pending_client_registrations_queue_ |-> <<>>, history |-> {},
             server_endpoint |-> 0, service_instances_ |-> {}, endpoints |-> <<>>, io_ |-> <<>>]
    /\ apps = [c \in Clients |-> "up"]
    /\ errors = {} /\ pongs = {}
    /\ commands = 0 /\ failures = 0 /\ sent = 0

\* A ping is answered by an application that is up when it is sent.
Answerable(r, s) ==
    pongs \cup {c \in s.pinged_clients_ \ r.pinged_clients_ : apps[c] = "up"}

Commands(command, c) ==
    /\ commands < MaxCommands
    /\ apps[c] = "up"
    /\ commands' = commands + 1
    /\ rm' = Command(rm, command, c)
    /\ pongs' = Answerable(rm, rm')
    /\ UNCHANGED <<apps, errors, failures, sent>>

\* An io thread runs a posted task.
RunIo(i) ==
    /\ i \in DOMAIN rm.io_
    /\ LET t == rm.io_[i]
           r == [rm EXCEPT !.io_ = RemoveAt(@, i)]
       IN  rm' = CASE t.task = "offer"      -> OfferService(r, t.client)
                   [] t.task = "stop_offer" -> StopOfferService(r, t.client)
                   [] t.task = "callback"   -> StopCallback(r, t.stop, t.ep)
                   [] t.task = "stop"       -> StopServerEndpoint(r, t.ep)
    /\ pongs' = Answerable(rm, rm')
    /\ UNCHANGED <<apps, errors, commands, failures, sent>>

\* A notification of the service: send_to() does not look at sending_blocked_,
\* send_intern() refuses a service that is being stopped.
SendMessage ==
    /\ sent < MaxSent
    /\ \E i \in rm.services_ :
         /\ rm.endpoints[i.endpoint].prepare_stop_handlers_.service = {}
         /\ rm' = [rm EXCEPT !.endpoints[i.endpoint].queue_ = TRUE]
    /\ sent' = sent + 1
    /\ UNCHANGED <<apps, errors, pongs, commands, failures>>

\* The write of the message ends, with or without an error.
MessageSent(e) ==
    /\ rm.endpoints[e].queue_
    /\ rm' = Drained(rm, e)
    /\ UNCHANGED <<apps, errors, pongs, commands, failures, sent>>

\* on_pong() of the stub and of the routing manager: the provider is alive.
Pong(c) ==
    /\ c \in pongs
    /\ pongs' = pongs \ {c}
    /\ rm' = [rm EXCEPT !.pinged_clients_ = @ \ {c},
                        !.pending_offers_ = {p \in @ : p.old # c}]
    /\ UNCHANGED <<apps, errors, commands, failures, sent>>

\* on_ping_timer_expired(): a client that could answer and is slow counts as a
\* failure.
PingTimeout(c) ==
    /\ c \in rm.pinged_clients_
    /\ c \in pongs => failures < MaxFailures
    /\ failures' = IF c \in pongs THEN failures + 1 ELSE failures
    /\ rm' = handle_client_error([rm EXCEPT !.pinged_clients_ = @ \ {c}], c)
    /\ pongs' = Answerable(rm, rm')
    /\ UNCHANGED <<apps, errors, commands, sent>>

Crash(c) ==
    /\ failures < MaxFailures
    /\ apps[c] = "up"
    /\ apps' = [apps EXCEPT ![c] = "down"]
    /\ errors' = errors \cup {c}
    /\ pongs' = pongs \ {c}
    /\ failures' = failures + 1
    /\ UNCHANGED <<rm, commands, sent>>

\* The endpoint to the client reports its error.
ClientError(c) ==
    /\ c \in errors
    /\ errors' = errors \ {c}
    /\ rm' = handle_client_error(rm, c)
    /\ pongs' = Answerable(rm, rm')
    /\ UNCHANGED <<apps, commands, failures, sent>>

\* An application that ends in order: its endpoint no longer reports errors.
Deregister(c) ==
    /\ commands < MaxCommands
    /\ apps[c] = "up"
    /\ commands' = commands + 1
    /\ apps' = [apps EXCEPT ![c] = "down"]
    /\ pongs' = pongs \ {c}
    /\ rm' = update_registration(rm, c, "DEREGISTER")
    /\ UNCHANGED <<errors, failures, sent>>

Register(c) ==
    /\ commands < MaxCommands
    /\ apps[c] = "down" /\ c \notin errors
    /\ commands' = commands + 1
    /\ apps' = [apps EXCEPT ![c] = "registering"]
    /\ rm' = update_registration(rm, c, "REGISTER")
    /\ UNCHANGED <<errors, pongs, failures, sent>>

\* A registration thread takes the first client.  A client that was taken for
\* dead sees its connection closed.
client_registration_func ==
    /\ rm.pending_client_registrations_queue_ # <<>>
    /\ LET first == Head(rm.pending_client_registrations_queue_)
           r     == [rm EXCEPT !.pending_client_registrations_queue_ = Tail(@)]
           c     == first.client
       IN  /\ rm' = registration_func(r, c, first.types, apps[c] # "down")
           /\ apps' = [apps EXCEPT ![c] =
                 IF @ # "down" /\ Last(first.types) = "REGISTER" THEN "up" ELSE "down"]
           /\ pongs' = pongs \ {c}
    /\ UNCHANGED <<errors, commands, failures, sent>>

OffersNext ==
    \/ \E c \in Clients :
         \/ Commands("offer", c) \/ Commands("stop_offer", c)
         \/ Pong(c) \/ PingTimeout(c) \/ Crash(c) \/ ClientError(c)
         \/ Deregister(c) \/ Register(c)
    \/ RunIo(1) \/ RunIo(2)
    \/ SendMessage \/ \E e \in DOMAIN rm.endpoints : MessageSent(e)
    \/ client_registration_func

OffersSpec == OffersInit /\ [][OffersNext]_offerVars

-----------------------------------------------------------------------------
(* Fairness: the io threads and the registration threads run what they have *)
(* to, writes end, timers expire, and a broken connection is noticed.       *)

Due == \/ RunIo(1)
       \/ \E e \in DOMAIN rm.endpoints : MessageSent(e)
       \/ \E c \in Clients : ClientError(c) \/ Pong(c) \/ PingTimeout(c)

OffersFairness == WF_offerVars(Due) /\ WF_offerVars(client_registration_func)

-----------------------------------------------------------------------------
(* Properties                                                              *)

\* Nothing that the host has to do is left.
Quiet ==
    /\ rm.io_ = <<>> /\ rm.pending_client_registrations_queue_ = <<>>
    /\ errors = {} /\ rm.pinged_clients_ = {}
    /\ \A e \in DOMAIN rm.endpoints : ~rm.endpoints[e].queue_

\* When the host is quiet a service that is offered has an open endpoint that
\* accepts its responses: offers and stops in any order (the callback of
\* on_stop_offer_service() against find_or_create_server_endpoint()).
CanAnswer ==
    Quiet => \A i \in rm.services_ : LET ep == rm.endpoints[i.endpoint]
                                     IN  ep.open /\ ~ep.sending_blocked_

\* ... unless an offer took an endpoint that was being stopped.
OfferCanAnswer == "reused" \notin rm.history => CanAnswer

\* When the host is quiet its three records of the offer agree: local_services_,
\* the services_ of the base class and routing_info_ of the stub, which are
\* written under three locks (on_stop_offer_service(), its callback and
\* on_deregister_application()), unless one of the schedules history names
\* happened.
TablesAgree ==
    Quiet /\ rm.history = {} => /\ rm.local_services_ = rm.offering
                               /\ (rm.services_ # {}) <=> (rm.local_services_ # {})

\* Every command that is queued is processed: whatever ends a command also
\* starts the next (erase_offer_command()), unless a stop waits for an endpoint
\* that was reused.
CommandsProcessed ==
    rm.offer_commands_ # <<>> ~> (rm.offer_commands_ = <<>> \/ "reused" \in rm.history)

\* When an application waits to take over from a provider that is gone, some
\* application that is there becomes the provider (handle_client_error()
\* offers again), unless the one that waited leaves.
ProviderReplaced ==
    \A b \in Clients :
        (\E p \in rm.pending_offers_ : p.client = b /\ apps[p.old] = "down")
          ~> \/ \E c \in rm.local_services_ : apps[c] # "down"
             \/ apps[b] # "up" \/ rm.history # {}
=============================================================================
