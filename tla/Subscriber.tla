----------------------------- MODULE Subscriber -----------------------------
(***************************************************************************)
(* The subscribing side of an eventgroup: the applications of a device      *)
(* subscribe at its routing manager host, which keeps ONE subscription at   *)
(* the remote provider for all of them (the eventgroup is not selective,    *)
(* its service is offered over UDP).                                        *)
(*                                                                          *)
(* Three tables have to agree: the subscribers of the event (event.cpp),    *)
(* subscribed_ of the service discovery, and the provider's own table.      *)
(* They are written by the connections of the applications, by the SD       *)
(* socket, by the TTL timer and by the timer of the client endpoint, each   *)
(* under mutexes of its own; a handler that releases its mutex before it    *)
(* has finished is more than one step.                                      *)
(*                                                                          *)
(* happened is not in the code: it names the schedules the tables do not    *)
(* recover from.                                                            *)
(*   "joined"    a client was inserted between the test that the last one   *)
(*               has gone and the end of the subscription                   *)
(*   "unknown"   a StopOffer of a service that is not known ended a         *)
(*               subscription that waits for the service                    *)
(*   "overtaken" a Subscribe was sent after the end of its subscription,    *)
(*               and no StopSubscribe will follow it                        *)
(*   "expiring"  a subscription was made while the TTL timer, which had     *)
(*               ended the previous one, was still deleting the service     *)
(*   "stop lost" a StopSubscribe was lost: it is not repeated               *)
(***************************************************************************)
EXTENDS Naturals, Sequences, FiniteSets, SequencesExt

CONSTANTS Applications,    \* the applications of the device
          MaxStimuli,      \* calls, withdrawals, expiries, reboots, rejections, lost messages
          MaxMessages      \* SD messages under way, when the provider sends another

VARIABLES users,       \* what the applications know (routing_manager_client)
          requests,    \* their commands under way to the host
          handling,    \* where the host is in the command of each application
          tables,      \* the tables of the host and of its service discovery
          expiry,      \* where the TTL timer is in update_routing_info
          unsent,      \* on_endpoint_connected has a Subscribe it has not sent yet
          toProvider,  \* SD messages to the provider, each a sequence of entries
          toHost,      \* its answers
          provider,    \* the provider, on another device
          stimuli,     \* how many of MaxStimuli there have been
          happened

subVars == <<users, requests, handling, tables, expiry, unsent, toProvider, toHost,
             provider, stimuli, happened>>

\* VSOMEIP_ROUTING_CLIENT, the client of a subscription that is not selective.
RoutingClient == "routing"

NoSubscription == [state |-> "none", endpoint |-> "none", udp |-> FALSE]

SubInit ==
    /\ users = [wanted |-> {}, available |-> {}, ok |-> {}]
    /\ requests = [c \in Applications |-> <<>>]
    /\ handling = [c \in Applications |-> "idle"]
    /\ tables = [subscribers |-> {}, acknowledged |-> {}, subscribed |-> NoSubscription,
                 known |-> FALSE, endpoint |-> "none", boot |-> 0]
    /\ expiry = "idle"
    /\ unsent = FALSE
    /\ toProvider = <<>>
    /\ toHost = <<>>
    /\ provider = [up |-> TRUE, subscribed |-> FALSE, boot |-> 0]
    /\ stimuli = 0
    /\ happened = {}

\* A call of an application, or a disruption.
Stimulus == /\ stimuli < MaxStimuli
            /\ stimuli' = stimuli + 1

Happens(what, when) == happened' = IF when THEN happened \cup {what} ELSE happened

\* serialize_and_send(): a message without entries is not sent.
SendEntries(entries) ==
    toProvider' = IF entries = <<>> THEN toProvider ELSE Append(toProvider, entries)

-----------------------------------------------------------------------------
(* The application and its routing_manager_client.                          *)

\* The subscription is pending from now on; it is sent at once only if the
\* service is available.
subscribe(c) ==
    /\ c \notin users.wanted
    /\ Stimulus
    /\ users' = [users EXCEPT !.wanted = @ \cup {c}, !.ok = @ \ {c}]
    /\ requests' = [requests EXCEPT ![c] =
           IF c \in users.available THEN Append(@, "subscribe") ELSE @]
    /\ UNCHANGED <<handling, tables, expiry, unsent, toProvider, toHost, provider, happened>>

unsubscribe(c) ==
    /\ c \in users.wanted
    /\ Stimulus
    /\ users' = [users EXCEPT !.wanted = @ \ {c}]
    /\ requests' = [requests EXCEPT ![c] = Append(@, "unsubscribe")]
    /\ UNCHANGED <<handling, tables, expiry, unsent, toProvider, toHost, provider, happened>>

\* The routing info that a service is gone or is there, at every application: a
\* service that is there gets the pending subscriptions.  It is applied as it is
\* sent; what follows from it waits in requests.
send_pending_subscriptions(deleted, added) ==
    /\ users' = [users EXCEPT !.available =
           IF added THEN Applications ELSE IF deleted THEN {} ELSE @]
    /\ requests' = [c \in Applications |->
           IF added /\ c \in users.wanted THEN Append(requests[c], "subscribe") ELSE requests[c]]

-----------------------------------------------------------------------------
(* routing_manager_impl: the commands, one after the other for each         *)
(* connection.                                                              *)

Take(c, name) ==
    /\ handling[c] = "idle"
    /\ requests[c] # <<>>
    /\ Head(requests[c]) = name
    /\ requests' = [requests EXCEPT ![c] = Tail(@)]

\* insert_subscription and handle_subscription_state, under
\* remote_subscription_state_mutex_.  Nothing more is done for a client that is in
\* the table already.
insert_subscription(c) ==
    /\ Take(c, "subscribe")
    /\ IF c \in tables.subscribers
       THEN UNCHANGED <<handling, tables, users>>
       ELSE /\ handling' = [handling EXCEPT ![c] = "inserted"]
            /\ tables' = [tables EXCEPT !.subscribers = @ \cup {c}]
            /\ users' = [users EXCEPT !.ok =
                   IF RoutingClient \in tables.acknowledged THEN @ \cup {c} ELSE @]
    /\ UNCHANGED <<expiry, unsent, toProvider, toHost, provider, stimuli, happened>>

\* get_subscription_endpoints: there is an endpoint exactly while the service is
\* known, as add_routing_info makes it.
SubscriptionEndpoint(t) == IF t.endpoint = "none" THEN "none" ELSE "current"

\* service_discovery_impl::subscribe, under subscribed_mutex_: a subscription that
\* exists serves the new client too; a new one is sent if its endpoint is
\* established.
discovery_subscribe(c) ==
    /\ handling[c] = "inserted"
    /\ handling' = [handling EXCEPT ![c] = "idle"]
    /\ LET established == tables.endpoint = "established"
       IN IF tables.subscribed # NoSubscription
          THEN UNCHANGED <<tables, toProvider>>
          ELSE /\ tables' = [tables EXCEPT !.subscribed =
                      [state |-> "NOT_ACKNOWLEDGED", udp |-> established,
                       endpoint |-> SubscriptionEndpoint(tables)]]
               /\ SendEntries(IF established THEN <<"subscribe">> ELSE <<>>)
    /\ Happens("expiring", expiry # "idle")
    /\ UNCHANGED <<users, requests, expiry, unsent, toHost, provider, stimuli>>

remove_subscriber(c) ==
    /\ Take(c, "unsubscribe")
    /\ handling' = [handling EXCEPT ![c] = "removed"]
    /\ tables' = [tables EXCEPT !.subscribers = @ \ {c}]
    /\ UNCHANGED <<users, expiry, unsent, toProvider, toHost, provider, stimuli, happened>>

\* Whether this was the last subscriber is read under no mutex that covers what
\* follows.  The acknowledgement that is erased is the one of the client; that of a
\* subscription which is not selective is kept, under VSOMEIP_ROUTING_CLIENT.
last_subscriber(c) ==
    /\ handling[c] = "removed"
    /\ LET last == tables.subscribers = {}
       IN /\ handling' = [handling EXCEPT ![c] = IF last THEN "last" ELSE "idle"]
          /\ tables' = [tables EXCEPT !.acknowledged = IF last THEN @ \ {c} ELSE @]
    /\ UNCHANGED <<users, requests, expiry, unsent, toProvider, toHost, provider, stimuli, happened>>

\* service_discovery_impl::unsubscribe makes the StopSubscribe under
\* subscribed_mutex_ ...
discovery_unsubscribe(c) ==
    /\ handling[c] = "last"
    /\ handling' = [handling EXCEPT ![c] =
           IF tables.subscribed.endpoint = "none" THEN "idle" ELSE "send"]
    /\ tables' = [tables EXCEPT !.subscribed = NoSubscription]
    /\ Happens("joined", tables.subscribers # {} /\ tables.subscribed # NoSubscription)
    /\ UNCHANGED <<users, requests, expiry, unsent, toProvider, toHost, provider, stimuli>>

\* ... and sends it when the mutex is released.
send_stop(c) ==
    /\ handling[c] = "send"
    /\ handling' = [handling EXCEPT ![c] = "idle"]
    /\ SendEntries(<<"stop">>)
    /\ UNCHANGED <<users, requests, tables, expiry, unsent, toHost, provider, stimuli, happened>>

-----------------------------------------------------------------------------
(* The service discovery.  on_message holds check_ttl_mutex_ and            *)
(* subscribed_mutex_ to its end, its answers included: no message is        *)
(* handled while the TTL timer is at work.                                  *)

\* unsubscribe_all, which sends a StopSubscribe; remove_subscriptions ends the
\* subscription without one.
StopEntries(t) == IF t.subscribed.endpoint = "none" THEN <<>> ELSE <<"stop">>

remove_subscriptions(t) == [t EXCEPT !.subscribed = NoSubscription]

\* Mutant: the implicit unsubscribe is left out.
ClientsKept(t) ==
    IF ~t.known THEN t
    ELSE [t EXCEPT !.acknowledged = {}, !.known = FALSE, !.endpoint = "none",
                   !.subscribed.endpoint = IF @ = "current" THEN "old" ELSE @]

\* The implicit unsubscribe of all clients; the endpoint and the service info go, and
\* a subscription made meanwhile keeps the old endpoint.
del_routing_info(t) ==
    IF ~t.known THEN t
    ELSE [t EXCEPT !.subscribers = {}, !.acknowledged = {}, !.known = FALSE,
                   !.endpoint = "none",
                   !.subscribed.endpoint = IF @ = "current" THEN "old" ELSE @]

\* For a service over UDP that applications have requested.
add_routing_info(t) ==
    IF t.known THEN t ELSE [t EXCEPT !.known = TRUE, !.endpoint = "connecting"]

\* expire_services of a provider whose message shows that it has rebooted.
Rebooted(t) == t.known /\ provider.boot # t.boot

expire_services(t) ==
    [(IF Rebooted(t) THEN del_routing_info(remove_subscriptions(t)) ELSE t)
        EXCEPT !.boot = provider.boot]

ExpiredEntries(t) == IF Rebooted(t) THEN StopEntries(t) ELSE <<>>

\* Mutant: the subscription keeps the endpoint it was made with.
EndpointKept(t, multicast) ==
    IF multicast /\ t.subscribed # NoSubscription
    THEN [t EXCEPT !.subscribed.state = "NOT_ACKNOWLEDGED"] ELSE t

\* An offer over multicast renews the subscription, on the endpoint there is now and
\* whether or not that is established.  (One that is not acknowledged is renewed by a
\* StopSubscribe and a Subscribe in one message, of which the last one counts.)
resubscribe(t, multicast) ==
    IF multicast /\ t.subscribed # NoSubscription
    THEN [t EXCEPT !.subscribed.state = "NOT_ACKNOWLEDGED",
                   !.subscribed.endpoint = SubscriptionEndpoint(t)]
    ELSE t

\* process_offerservice_serviceentry, and the renewal that on_message sends.
process_offer(multicast) ==
    /\ expiry = "idle"
    /\ provider.up
    /\ Len(toProvider) < MaxMessages
    /\ LET expired == expire_services(tables)
           renewed == resubscribe(expired, multicast)
           renewal == IF multicast /\ renewed.subscribed.endpoint # "none"
                      THEN <<"subscribe">> ELSE <<>>
       IN /\ tables' = add_routing_info(renewed)
          /\ send_pending_subscriptions(Rebooted(tables), ~expired.known)
          /\ SendEntries(ExpiredEntries(tables) \o renewal)
    /\ UNCHANGED <<handling, expiry, unsent, toHost, provider, stimuli, happened>>

\* A StopOffer, unless it is lost.
process_stop_offer(received) ==
    /\ expiry = "idle"
    /\ provider.up
    /\ Stimulus
    /\ provider' = [provider EXCEPT !.up = FALSE, !.subscribed = FALSE]
    /\ IF received
       THEN LET expired == expire_services(tables)
            IN /\ tables' = del_routing_info(remove_subscriptions(expired))
               /\ send_pending_subscriptions(tables.known, FALSE)
               /\ SendEntries(ExpiredEntries(tables))
       ELSE UNCHANGED <<tables, users, requests, toProvider>>
    /\ Happens("unknown", received /\ ~tables.known /\ tables.subscribed # NoSubscription)
    /\ UNCHANGED <<handling, expiry, unsent, toHost>>

\* handle_eventgroup_subscription_ack and _nack.  An answer does not say which
\* Subscribe it answers; on_subscribe_nack finds nothing to do at a subscriber.
process_answer ==
    /\ expiry = "idle"
    /\ toHost # <<>>
    /\ toHost' = Tail(toHost)
    /\ LET expired == expire_services(tables)
           accepted == Head(toHost) = "ack" /\ expired.subscribed.state = "NOT_ACKNOWLEDGED"
       IN /\ tables' = IF ~accepted THEN expired
                       ELSE [expired EXCEPT !.subscribed.state = "ACKNOWLEDGED",
                                            !.acknowledged = @ \cup {RoutingClient}]
          /\ users' = [users EXCEPT
                 !.ok = IF accepted /\ RoutingClient \notin expired.acknowledged
                        THEN @ \cup expired.subscribers ELSE @,
                 !.available = IF Rebooted(tables) THEN {} ELSE @]
          /\ SendEntries(ExpiredEntries(tables))
    /\ UNCHANGED <<requests, handling, expiry, unsent, provider, stimuli, happened>>

\* update_routing_info of the TTL timer, under check_ttl_mutex_, when no offer has come
\* in time: unsubscribe_all, which sends when subscribed_mutex_ is released ...
update_routing_info ==
    /\ expiry = "idle"
    /\ tables.known
    /\ Stimulus
    /\ expiry' = IF StopEntries(tables) = <<>> THEN "delete" ELSE "send"
    /\ tables' = remove_subscriptions(tables)
    /\ UNCHANGED <<users, requests, handling, unsent, toProvider, toHost, provider, happened>>

send_expired ==
    /\ expiry = "send"
    /\ expiry' = "delete"
    /\ SendEntries(<<"stop">>)
    /\ UNCHANGED <<users, requests, handling, tables, unsent, toHost, provider, stimuli, happened>>

\* ... and del_routing_info.
delete_expired ==
    /\ expiry = "delete"
    /\ expiry' = "idle"
    /\ tables' = del_routing_info(tables)
    /\ send_pending_subscriptions(TRUE, FALSE)
    /\ UNCHANGED <<handling, unsent, toProvider, toHost, provider, stimuli, happened>>

\* Called 3 ms after the endpoint has connected: a subscription that waits for the
\* endpoint, or was made on an established one before it, is made anew ...
on_endpoint_connected ==
    /\ tables.endpoint = "connecting"
    /\ ~unsent
    /\ LET s == tables.subscribed
           ready == s.endpoint = "current" \/ (s.endpoint = "old" /\ s.udp)
       IN /\ unsent' = ready
          /\ tables' = [tables EXCEPT !.endpoint = "established",
                 !.subscribed = IF ready THEN [state |-> "NOT_ACKNOWLEDGED", udp |-> TRUE,
                                               endpoint |-> "current"] ELSE @]
    /\ UNCHANGED <<users, requests, handling, expiry, toProvider, toHost, provider,
                   stimuli, happened>>

\* ... and sent when subscribed_mutex_ is released.
send_connected ==
    /\ unsent
    /\ unsent' = FALSE
    /\ SendEntries(<<"subscribe">>)
    /\ Happens("overtaken", tables.subscribed.endpoint = "none")
    /\ UNCHANGED <<users, requests, handling, tables, expiry, toHost, provider, stimuli>>

-----------------------------------------------------------------------------
(* The provider, another device, and the network: external.                 *)

\* The last entry of a message decides; a Subscribe is accepted or not.
Receive(accept) ==
    /\ toProvider # <<>>
    /\ Len(toHost) < MaxMessages
    /\ toProvider' = Tail(toProvider)
    /\ LET accepted == provider.up /\ accept
       IN \/ /\ Last(Head(toProvider)) = "stop"
             /\ accept
             /\ provider' = [provider EXCEPT !.subscribed = FALSE]
             /\ UNCHANGED <<toHost, stimuli>>
          \/ /\ Last(Head(toProvider)) = "subscribe"
             /\ provider' = [provider EXCEPT !.subscribed = accepted]
             /\ toHost' = Append(toHost, IF accepted THEN "ack" ELSE "nack")
             /\ IF accept THEN UNCHANGED stimuli ELSE Stimulus
    /\ UNCHANGED <<users, requests, handling, tables, expiry, unsent, happened>>

\* An outage, like a reboot, outlasts the datagrams that were under way.
OfferAgain ==
    /\ ~provider.up
    /\ toProvider = <<>>
    /\ provider' = [provider EXCEPT !.up = TRUE]
    /\ UNCHANGED <<users, requests, handling, tables, expiry, unsent, toProvider, toHost,
                   stimuli, happened>>

Reboot ==
    /\ Stimulus
    /\ provider' = [up |-> TRUE, subscribed |-> FALSE, boot |-> provider.boot + 1]
    /\ toProvider' = <<>>
    /\ toHost' = <<>>
    /\ UNCHANGED <<users, requests, handling, tables, expiry, unsent, happened>>

Lose ==
    /\ Stimulus
    /\ \/ /\ toProvider # <<>>
          /\ toProvider' = Tail(toProvider)
          /\ Happens("stop lost", Contains(Head(toProvider), "stop"))
          /\ UNCHANGED toHost
       \/ /\ toHost # <<>>
          /\ toHost' = Tail(toHost)
          /\ UNCHANGED <<toProvider, happened>>
    /\ UNCHANGED <<users, requests, handling, tables, expiry, unsent, provider>>

-----------------------------------------------------------------------------
\* The host goes on with the command of an application.
Handle(c) == \/ insert_subscription(c) \/ discovery_subscribe(c) \/ remove_subscriber(c)
             \/ last_subscriber(c) \/ discovery_unsubscribe(c) \/ send_stop(c)

SubNext ==
    \/ \E c \in Applications : subscribe(c) \/ unsubscribe(c) \/ Handle(c)
    \/ \E multicast \in BOOLEAN : process_offer(multicast)
    \/ \E received \in BOOLEAN : process_stop_offer(received)
    \/ process_answer
    \/ update_routing_info \/ send_expired \/ delete_expired
    \/ on_endpoint_connected \/ send_connected
    \/ \E accept \in BOOLEAN : Receive(accept)
    \/ OfferAgain \/ Reboot \/ Lose

\* Threads go on with what they have begun, the provider offers cyclically over
\* multicast, and what is sent again and again arrives (MaxStimuli).
SubFairness ==
    /\ \A c \in Applications : WF_subVars(Handle(c))
    /\ WF_subVars(process_offer(TRUE))
    /\ WF_subVars(process_answer)
    /\ WF_subVars(send_expired \/ delete_expired)
    /\ WF_subVars(on_endpoint_connected \/ send_connected)
    /\ WF_subVars(Receive(TRUE))

-----------------------------------------------------------------------------
\* The schedules after which a client of the event may be without a subscription.
Stranding == {"joined", "unknown"}

\* The event has no subscriber without a subscription: when the host has finished the
\* commands it has begun, a client in the table of the event is served by an entry of
\* subscribed_, which the next offer renews (routing_manager_impl::subscribe and
\* unsubscribe, del_routing_info).  Otherwise nothing would ever subscribe for it, as
\* insert_subscription refuses a client that is in the table.
SubscriberIsServed ==
    \/ happened \cap Stranding # {}
    \/ expiry # "idle"
    \/ \E c \in Applications : handling[c] # "idle"
    \/ tables.subscribers # {} => tables.subscribed # NoSubscription

\* The application wants the eventgroup: it is a subscriber, is subscribed at the
\* provider and has been told so.
Subscribed(c) == c \in tables.subscribers /\ provider.subscribed /\ c \in users.ok

\* Nobody wants it: no subscription is left here or at the provider.
Ended == tables.subscribed = NoSubscription /\ ~provider.subscribed

\* When the calls end, after lost messages, rejections, withdrawals, expiries and
\* reboots, the one subscription at the provider settles on what the applications want.
\* It stays for every application that wants it while the provider is there
\* (send_pending_subscriptions, the renewal in process_offerservice_serviceentry,
\* on_endpoint_connected), and it ends with the last of them
\* (routing_manager_impl::unsubscribe, service_discovery_impl::unsubscribe and
\* unsubscribe_all).
SubscriptionFollows ==
    <>[](/\ provider.up /\ happened \cap Stranding = {} => \A c \in users.wanted : Subscribed(c)
         /\ users.wanted = {} /\ happened \subseteq Stranding => Ended)
=============================================================================
