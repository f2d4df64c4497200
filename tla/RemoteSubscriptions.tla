------------------------- MODULE RemoteSubscriptions ------------------------
(***************************************************************************)
(* Subscriptions of other devices to one eventgroup of a local service:    *)
(* service_discovery_impl receives the entries and answers them,           *)
(* routing_manager_impl and eventgroupinfo keep the subscriptions and ask  *)
(* the application that offers the service, and a timer removes what was   *)
(* not renewed.                                                            *)
(*                                                                         *)
(* Three threads: the one inside service_discovery_impl::on_message (sd),  *)
(* the one that handles the replies of the offering application, in the    *)
(* order of its connection (ans), and the expiration timer (expiring).     *)
(* update_remote_subscription_mutex_ and subscriptions_mutex_ are held     *)
(* across steps only while sd.pc = "decide".  The subscribers are ports of *)
(* one address.  Objects are numbered in the order of their creation.      *)
(***************************************************************************)
EXTENDS Naturals, Sequences, FiniteSets, SequencesExt

CONSTANTS
    Subscribers,             \* endpoints that subscribe
    Clients,                 \* clients of a selective subscription; a single one otherwise
    ClientSets,              \* the sets of clients an entry may name
    max_remote_subscribers_,
    MaxId,                   \* largest remote_subscription_id_t
    MaxEntries,              \* bound on the entries received
    MaxDisruptions           \* bound on reboots, forced expiries and lost requests

ASSUME SubscribersAssumption == IsFiniteSet(Subscribers)
ASSUME ClientsAssumption == IsFiniteSet(Clients) /\ ClientSets \subseteq (SUBSET Clients) \ {{}}
ASSUME LimitAssumption == max_remote_subscribers_ \in Nat
ASSUME IdAssumption == MaxId \in Nat \ {0} /\ MaxEntries \in Nat /\ MaxEntries <= MaxId
ASSUME DisruptionsAssumption == MaxDisruptions \in Nat

VARIABLES
    subs,                       \* the remote_subscription objects
    subscriptions_,             \* eventgroupinfo: the objects in its map, by their id
    id_,
    remote_subscribers_count_,
    pending_remote_subscriptions_, \* objects with a remote_subscription_ack
    orphans,                    \* objects in that map without one
    acks,                       \* the remote_subscription_acks, one per message
    sd, ans, expiring,          \* the threads
    forwarded,                  \* requests the application has to answer
    disruptions,
    (* history *)
    accepted,                   \* <<subscriber, client>> the application accepted
    told,                       \* <<subscriber, client, state>> in answers sent
    undisturbed                 \* per subscriber: its last entry, if it was a Subscribe
                                \* that met no unfinished business, else 0

mapVars   == <<subscriptions_, id_, remote_subscribers_count_>>
ackVars   == <<pending_remote_subscriptions_, orphans, acks, told>>
vars      == <<subs, mapVars, ackVars, sd, ans, expiring, forwarded, disruptions, accepted, undisturbed>>

\* Every reboot, forced expiry or lost request counts.
Count(disruption) ==
    /\ disruption => disruptions < MaxDisruptions
    /\ disruptions' = IF disruption THEN disruptions + 1 ELSE disruptions

-----------------------------------------------------------------------------
(* remote_subscription                                                     *)

States == {"absent", "PENDING", "ACKED", "NACKED", "UNKNOWN"}

\* An object as handle_eventgroup_subscription makes it; ttl is 0 to unsubscribe.
NewSubscription(e, a) ==
    [ep |-> e.ep, ttl |-> e.ttl, ack |-> a, id |-> 0, parent |-> 0, answers |-> 1,
     state |-> [c \in Clients |-> IF c \in e.clients THEN "PENDING" ELSE "absent"],
     expiration |-> [c \in Clients |-> "none"]]

get_clients(s) == {c \in Clients : s.state[c] # "absent"}
is_pending(s) == \E c \in Clients : s.state[c] = "PENDING"

\* Mutant: the time to live does not start with the answer.
StateOnly(s, c, state) == IF s.state[c] = "absent" THEN s ELSE [s EXCEPT !.state[c] = state]

set_client_state(s, c, state) ==
    IF s.state[c] = "absent" THEN s
    ELSE [s EXCEPT !.state[c] = state,
                   !.expiration[c] = IF @ = "none" /\ state \in {"ACKED", "NACKED"} THEN "fresh" ELSE @]

\* update(): renew or add clients, or remove them.
renew(s, clients) ==
    [s EXCEPT !.state = [c \in Clients |-> IF c \in clients /\ @[c] = "absent" THEN "PENDING" ELSE @[c]],
              !.expiration = [c \in Clients |-> IF c \in clients THEN "fresh" ELSE @[c]]]

remove(s, clients) ==
    [s EXCEPT !.state = [c \in Clients |-> IF c \in clients THEN "absent" ELSE @[c]],
              !.expiration = [c \in Clients |-> IF c \in clients THEN "none" ELSE @[c]]]

\* The states an object takes over from the one that is kept.
CopyStates(s, from) ==
    [s EXCEPT !.state = [c \in Clients |-> IF @[c] = "absent" THEN "absent"
                                           ELSE IF from.state[c] = "absent" THEN "UNKNOWN" ELSE from.state[c]],
              !.expiration = [c \in Clients |-> IF @[c] = "none" /\ s.state[c] # "absent"
                                                   /\ from.state[c] \in {"ACKED", "NACKED"}
                                                THEN "fresh" ELSE @[c]]]

\* Object o withdrew clients from object p, of which left is left; if they are
\* the same object, it has no other clients.
Withdraw(s, o, p, left) == [[s EXCEPT ![o] = CopyStates(@, left)] EXCEPT ![p] = left]

-----------------------------------------------------------------------------
(* eventgroupinfo                                                          *)

update_id == IF id_ = MaxId THEN 1 ELSE id_ + 1

Equal(e) == {o \in subscriptions_ : subs[o].ep = e}

\* The first of the map that equals a subscription of e.
First(e) == CHOOSE o \in Equal(e) : \A p \in Equal(e) : subs[o].id <= subs[p].id

WithId(id) == {o \in subscriptions_ : subs[o].id = id}

\* Mutant: removing a subscription does not give its place back.
KeepCount(o) ==
    /\ subscriptions_' = subscriptions_ \ {o}
    /\ UNCHANGED remote_subscribers_count_

remove_remote_subscription(o) ==
    /\ subscriptions_' = subscriptions_ \ {o}
    /\ remote_subscribers_count_' =
          IF o \in subscriptions_ /\ remote_subscribers_count_ > 0 THEN remote_subscribers_count_ - 1
          ELSE remote_subscribers_count_

is_remote_subscription_limit_reached ==
    /\ Cardinality(subscriptions_) > max_remote_subscribers_
    /\ remote_subscribers_count_ >= max_remote_subscribers_

\* An object lives as long as a shared_ptr to it does.
Alive(o) ==
    o \in subscriptions_ \cup pending_remote_subscriptions_ \cup orphans \cup expiring \cup sd.drop \cup {ans.o}

get_parent(o) == IF subs[o].parent # 0 /\ Alive(subs[o].parent) THEN subs[o].parent ELSE 0

-----------------------------------------------------------------------------
(* The answer to a message                                                 *)

Of(a) == {o \in DOMAIN subs : subs[o].ack = a}

\* remote_subscription_ack::is_pending
AckPending(a) == \E o \in Of(a) : is_pending(subs[o]) /\ subs[o].answers # 0

\* Mutant: a client that is still undecided is acknowledged.
AnswerUndecided(o) ==
    {<<subs[o].ep, c, IF subs[o].state[c] # "NACKED" THEN "ACKED" ELSE "NACKED">> : c \in get_clients(subs[o])}

\* What the answer says of a subscription.
Answer(o) ==
    {<<subs[o].ep, c, IF subs[o].state[c] = "ACKED" THEN "ACKED" ELSE "NACKED">> : c \in get_clients(subs[o])}

\* send_subscription_ack: if objects want 0 answers nothing is sent, and the
\* message of the parent of the last of them (the set is ordered by address)
\* answers its other entries once more.  Looking that message up leaves a null
\* entry for a parent that has none.
send_subscription_ack(a) ==
    LET silent == {o \in Of(a) : subs[o].answers = 0} IN
    /\ acks' = [acks EXCEPT ![a] = [complete |-> TRUE, done |-> TRUE]]
    /\ pending_remote_subscriptions_' = pending_remote_subscriptions_ \ Of(a)
    /\ \/ /\ silent = {}
          /\ told' = told \cup UNION {Answer(o) : o \in {p \in Of(a) : subs[p].ttl > 0}}
          /\ UNCHANGED <<subs, orphans>>
       \/ \E o \in silent : LET parent == get_parent(o) IN
          /\ subs' = [p \in DOMAIN subs |->
                        IF parent \in pending_remote_subscriptions_ /\ p # parent /\ subs[p].ack = subs[parent].ack
                        THEN [subs[p] EXCEPT !.answers = @ + 1] ELSE subs[p]]
          /\ orphans' = orphans \cup ({parent} \ ({0} \cup pending_remote_subscriptions_))
          /\ UNCHANGED told

\* update_acknowledgement, for an ack that is complete or not.
update_acknowledgement(a, complete) ==
    IF complete /\ ~AckPending(a) /\ ~acks[a].done
    THEN send_subscription_ack(a)
    ELSE /\ acks' = [acks EXCEPT ![a].complete = complete]
         /\ UNCHANGED <<subs, pending_remote_subscriptions_, orphans, told>>

-----------------------------------------------------------------------------
(* Requests to the application that offers the service                    *)

\* One request per client; if the application cannot be reached, the host
\* posts the reply itself, which may overtake those of the application.
Send(type, clients, id) ==
    \E lost \in BOOLEAN :
        /\ Count(lost)
        /\ forwarded' = forwarded \o
            SetToSeq({[type |-> type, client |-> c, id |-> id, lost |-> lost] : c \in clients})

send_subscription(clients, id) == Send("subscribe", clients, id)
send_unsubscription(clients, id) == Send("unsubscribe", clients, id)

\* The map entry made for object o under a new id.
Insert(o) ==
    /\ id_' = update_id
    /\ subscriptions_' = (subscriptions_ \ WithId(update_id)) \cup {o}

-----------------------------------------------------------------------------
(* The thread inside service_discovery_impl::on_message                    *)

Entries == [ep : Subscribers, clients : ClientSets, ttl : {0, 1}]

Idle == [pc |-> "idle", drop |-> {}, todo |-> <<>>, existing |-> 0, added |-> {}]

\* No message, reply or expiry is under way.
Quiet == sd.pc = "idle" /\ forwarded = <<>> /\ ans.pc = "idle" /\ expiring = {}

\* A message arrives.  After a reboot of the sender all its subscriptions are
\* removed first.
on_message(entries, reboot) ==
    /\ sd.pc = "idle"
    /\ Count(reboot)
    /\ Len(subs) + Len(entries) <= MaxEntries
    /\ acks' = Append(acks, [complete |-> FALSE, done |-> FALSE])
    /\ sd' = [Idle EXCEPT !.pc = "entries", !.todo = entries,
                          !.drop = IF reboot THEN subscriptions_ ELSE {}]
    /\ undisturbed' = [e \in Subscribers |->
          LET own == SelectSeq(entries, LAMBDA x : x.ep = e) IN
          IF /\ Quiet /\ ~reboot /\ Len(own) = 1 /\ own[1].ttl > 0
             /\ \A o \in Equal(e) : ~is_pending(subs[o])
          THEN Len(acks) + 1
          ELSE IF own # <<>> \/ reboot THEN 0 ELSE undisturbed[e]]
    /\ UNCHANGED <<subs, mapVars, pending_remote_subscriptions_, orphans, told, ans, expiring, forwarded, accepted>>

\* on_remote_unsubscribe(object o), the objects being s.
on_remote_unsubscribe(o, s) ==
    IF Equal(s[o].ep) = {}
    THEN subs' = s /\ UNCHANGED <<forwarded, disruptions>>
    ELSE LET p == First(s[o].ep)
             left == remove(s[p], get_clients(s[o])) IN
         /\ subs' = Withdraw(s, o, p, left)
         /\ send_unsubscription(get_clients(s[o]) \cap get_clients(s[p]), s[p].id)

\* expire_subscriptions(address), one subscription after the other.
DropSubscription ==
    /\ sd.pc = "entries"
    /\ \E o \in sd.drop :
          /\ on_remote_unsubscribe(o, subs)
          /\ sd' = [sd EXCEPT !.drop = @ \ {o}]
    /\ UNCHANGED <<mapVars, ackVars, ans, expiring, accepted, undisturbed>>

NextEntry(t) == sd.pc = "entries" /\ sd.drop = {} /\ sd.todo # <<>> /\ Head(sd.todo).ttl = t

\* has_same and check_stop_subscribe_subscribe: entries a later one supersedes.
Superseded ==
    \E i \in 2..Len(sd.todo) :
        /\ sd.todo[i].ep = Head(sd.todo).ep
        /\ sd.todo[i].ttl >= Head(sd.todo).ttl

SkipEntry ==
    /\ \E t \in {0, 1} : NextEntry(t)
    /\ Superseded
    /\ sd' = [sd EXCEPT !.todo = Tail(@)]
    /\ UNCHANGED <<subs, mapVars, ackVars, ans, expiring, forwarded, accepted, undisturbed, disruptions>>

\* handle_eventgroup_subscription up to the call of the routing manager.
Object == Len(subs) + 1
Register == pending_remote_subscriptions_' = pending_remote_subscriptions_ \cup {Object}

StopSubscribe ==
    /\ NextEntry(0) /\ ~Superseded
    /\ Register
    /\ on_remote_unsubscribe(Object, Append(subs, NewSubscription(Head(sd.todo), Len(acks))))
    /\ sd' = [sd EXCEPT !.todo = Tail(@)]
    /\ UNCHANGED <<mapVars, orphans, acks, told, ans, expiring, accepted, undisturbed>>

\* on_remote_subscribe for a subscriber that is not in the map.
SubscribeNew ==
    LET new == NewSubscription(Head(sd.todo), Len(acks)) IN
    /\ NextEntry(1) /\ ~Superseded
    /\ Equal(new.ep) = {}
    /\ Register
    /\ sd' = [sd EXCEPT !.todo = Tail(@)]
    /\ IF is_remote_subscription_limit_reached
       THEN /\ subs' = Append(subs, [new EXCEPT !.state = [c \in Clients |->
                                        IF @[c] = "absent" THEN "absent" ELSE "NACKED"]])
            /\ UNCHANGED <<mapVars, forwarded, disruptions>>
       ELSE /\ subs' = Append(subs, [new EXCEPT !.id = update_id])
            /\ Insert(Object)
            /\ remote_subscribers_count_' = (remote_subscribers_count_ + 1) % 256
            /\ send_subscription(get_clients(new), update_id)
    /\ UNCHANGED <<orphans, acks, told, ans, expiring, accepted, undisturbed>>

\* eventgroupinfo::update_remote_subscription renews the existing object and
\* copies its states; a client being removed is subscribed again.
SubscribeKnown ==
    LET new == NewSubscription(Head(sd.todo), Len(acks))
        p == First(new.ep)
        kept == renew(subs[p], get_clients(new))
        copy == CopyStates(new, kept) IN
    /\ NextEntry(1) /\ ~Superseded
    /\ Equal(new.ep) # {}
    /\ Register
    /\ subs' = Append([subs EXCEPT ![p] = kept],
                      [copy EXCEPT !.state = [c \in Clients |-> IF @[c] = "UNKNOWN" THEN "PENDING" ELSE @[c]]])
    /\ sd' = [sd EXCEPT !.pc = "decide", !.existing = p,
                        !.added = {c \in get_clients(new) : subs[p].state[c] \in {"absent", "UNKNOWN"}}]
    /\ UNCHANGED <<mapVars, orphans, acks, told, ans, expiring, forwarded, accepted, undisturbed, disruptions>>

\* The rest of it: new clients make the object a child; an object that is
\* still pending lets the existing one answer for it.
Decide ==
    LET o == Len(subs) IN
    /\ sd.pc = "decide"
    /\ sd' = [sd EXCEPT !.pc = "entries", !.todo = Tail(@), !.existing = 0, !.added = {}]
    /\ \/ /\ sd.added # {}
          /\ subs' = [subs EXCEPT ![o].parent = sd.existing, ![o].id = update_id]
          /\ Insert(o)
          /\ send_subscription(sd.added, update_id)
          /\ UNCHANGED remote_subscribers_count_
       \/ /\ sd.added = {}
          /\ subs' = IF is_pending(subs[o])
                     THEN [[subs EXCEPT ![sd.existing].answers = @ + 1]
                               EXCEPT ![o] = [@ EXCEPT !.parent = sd.existing, !.answers = 0]]
                     ELSE subs
          /\ UNCHANGED <<mapVars, forwarded, disruptions>>
    /\ UNCHANGED <<ackVars, ans, expiring, accepted, undisturbed>>

\* Mutant: a message decided before its last entry is not answered.
CompleteOnly ==
    /\ sd.pc = "entries" /\ sd.drop = {} /\ sd.todo = <<>>
    /\ sd' = Idle
    /\ acks' = [acks EXCEPT ![Len(acks)].complete = TRUE]
    /\ UNCHANGED <<subs, mapVars, pending_remote_subscriptions_, orphans, told, ans, expiring, forwarded,
                   disruptions, accepted, undisturbed>>

\* All entries are processed.
Complete ==
    /\ sd.pc = "entries" /\ sd.drop = {} /\ sd.todo = <<>>
    /\ sd' = Idle
    /\ update_acknowledgement(Len(acks), TRUE)
    /\ UNCHANGED <<mapVars, ans, expiring, forwarded, accepted, undisturbed, disruptions>>

-----------------------------------------------------------------------------
(* The thread that handles the replies of the application                  *)

\* Replies come in the order of the requests, those of the host at any time.
Answerable(i) == forwarded[i].lost \/ \A j \in 1..i - 1 : forwarded[j].lost

\* on_subscribe_ack and on_subscribe_nack look the subscription up ...
SubscribeReply(i, state) ==
    LET f == forwarded[i] IN
    /\ ans.pc = "idle" /\ sd.pc # "decide"
    /\ f.type = "subscribe" /\ Answerable(i)
    /\ f.lost => state = "NACKED"
    /\ forwarded' = RemoveAt(forwarded, i)
    /\ ans' = IF WithId(f.id) = {} THEN ans
              ELSE [pc |-> "found", o |-> CHOOSE o \in WithId(f.id) : TRUE,
                    client |-> f.client, state |-> state, remove |-> f.lost]
    /\ UNCHANGED <<subs, mapVars, ackVars, sd, expiring, accepted, undisturbed, disruptions>>

\* ... note the reply in it and in its parent ...
SetState ==
    /\ ans.pc = "found"
    /\ subs' = [o \in DOMAIN subs |-> IF o \in {ans.o, get_parent(ans.o)}
                                      THEN set_client_state(subs[o], ans.client, ans.state) ELSE subs[o]]
    /\ ans' = [ans EXCEPT !.pc = "set"]
    /\ accepted' = IF ans.state = "ACKED" THEN accepted \cup {<<subs[ans.o].ep, ans.client>>} ELSE accepted
    /\ undisturbed' = IF ans.remove THEN [undisturbed EXCEPT ![subs[ans.o].ep] = 0] ELSE undisturbed
    /\ UNCHANGED <<mapVars, ackVars, sd, expiring, forwarded, disruptions>>

\* ... remove a child that is answered ...
RemoveChild ==
    /\ ans.pc = "set"
    /\ ans' = [ans EXCEPT !.pc = "notify"]
    /\ IF get_parent(ans.o) # 0 /\ ~is_pending(subs[ans.o])
       THEN sd.pc # "decide" /\ remove_remote_subscription(ans.o) /\ UNCHANGED id_
       ELSE UNCHANGED mapVars
    /\ UNCHANGED <<subs, ackVars, sd, expiring, forwarded, accepted, undisturbed, disruptions>>

\* ... let service discovery answer (update_remote_subscription) ...
Notify ==
    /\ ans.pc = "notify"
    /\ ans' = [ans EXCEPT !.pc = "remove"]
    /\ LET a == subs[ans.o].ack IN
       IF /\ ~is_pending(subs[ans.o]) \/ subs[ans.o].answers = 0
          /\ ans.o \in pending_remote_subscriptions_
       THEN update_acknowledgement(a, acks[a].complete)
       ELSE UNCHANGED <<subs, ackVars>>
    /\ UNCHANGED <<mapVars, sd, expiring, forwarded, accepted, undisturbed, disruptions>>

\* ... and forget a subscription whose application was not reached.
Finish ==
    /\ ans.pc = "remove"
    /\ ans' = [pc |-> "idle", o |-> 0]
    /\ IF ans.remove
       THEN sd.pc # "decide" /\ remove_remote_subscription(ans.o) /\ UNCHANGED id_
       ELSE UNCHANGED mapVars
    /\ UNCHANGED <<subs, ackVars, sd, expiring, forwarded, accepted, undisturbed, disruptions>>

on_unsubscribe_ack(i) ==
    /\ ans.pc = "idle" /\ sd.pc # "decide"
    /\ forwarded[i].type = "unsubscribe" /\ Answerable(i)
    /\ forwarded' = RemoveAt(forwarded, i)
    /\ IF WithId(forwarded[i].id) = {} THEN UNCHANGED mapVars
       ELSE /\ remove_remote_subscription(CHOOSE o \in WithId(forwarded[i].id) : TRUE)
            /\ UNCHANGED id_
    /\ UNCHANGED <<subs, ackVars, sd, ans, expiring, accepted, undisturbed, disruptions>>

-----------------------------------------------------------------------------
(* The expiration timer                                                    *)

\* The time to live of an object in the map runs out.
Elapse(o) ==
    /\ \E c \in Clients : subs[o].expiration[c] = "fresh"
    /\ subs' = [subs EXCEPT ![o].expiration = [c \in Clients |-> IF @[c] = "fresh" THEN "old" ELSE @[c]]]
    /\ UNCHANGED <<mapVars, ackVars, sd, ans, expiring, forwarded, accepted, undisturbed, disruptions>>

Expired(force) ==
    {o \in subscriptions_ : \E c \in get_clients(subs[o]) : force \/ subs[o].expiration[c] = "old"}

\* expire_subscriptions collects the expired subscriptions (all, when forced) ...
expire_subscriptions(force) ==
    /\ expiring = {} /\ sd.pc # "decide"
    /\ Expired(force) # {}
    /\ Count(force)
    /\ expiring' = Expired(force)
    /\ UNCHANGED <<subs, mapVars, ackVars, sd, ans, forwarded, accepted, undisturbed>>

\* ... and for each removes the first of the map that equals it.
ExpireSubscription(o) ==
    LET e == subs[o].ep
        left == remove(subs[First(e)], get_clients(subs[o])) IN
    /\ sd.pc # "decide"
    /\ expiring' = expiring \ {o}
    /\ undisturbed' = [undisturbed EXCEPT ![e] = 0]
    /\ IF Equal(e) = {} THEN UNCHANGED <<subs, mapVars>>
       ELSE /\ subs' = Withdraw(subs, o, First(e), left)
            /\ remove_remote_subscription(First(e))
            /\ UNCHANGED id_
    /\ UNCHANGED <<ackVars, sd, ans, forwarded, accepted, disruptions>>

-----------------------------------------------------------------------------
Init ==
    /\ subs = <<>> /\ subscriptions_ = {} /\ id_ = 0 /\ remote_subscribers_count_ = 0
    /\ pending_remote_subscriptions_ = {} /\ orphans = {} /\ acks = <<>>
    /\ sd = Idle /\ ans = [pc |-> "idle", o |-> 0] /\ expiring = {} /\ forwarded = <<>> /\ disruptions = 0
    /\ accepted = {} /\ told = {} /\ undisturbed = [e \in Subscribers |-> 0]

Messages == {<<e>> : e \in Entries} \cup {<<e, f>> : e \in Entries, f \in Entries}

SdStep == DropSubscription \/ SkipEntry \/ StopSubscribe \/ SubscribeNew \/ SubscribeKnown \/ Decide \/ Complete

Reply == \E i \in DOMAIN forwarded : on_unsubscribe_ack(i) \/ \E s \in {"ACKED", "NACKED"} : SubscribeReply(i, s)
AnswerStep == Reply \/ SetState \/ RemoveChild \/ Notify \/ Finish

TimerStep == expire_subscriptions(FALSE) \/ \E o \in expiring : ExpireSubscription(o)

Next ==
    \/ \E m \in Messages, reboot \in BOOLEAN : on_message(m, reboot)
    \/ SdStep \/ AnswerStep \/ TimerStep
    \/ expire_subscriptions(TRUE)
    \/ \E o \in subscriptions_ : Elapse(o)

Spec == Init /\ [][Next]_vars

\* Handlers run to their end, the application replies, time passes and the
\* timer fires.  Nothing makes anybody send a message.
Fairness ==
    /\ WF_vars(SdStep) /\ WF_vars(AnswerStep) /\ WF_vars(TimerStep)
    /\ WF_vars(\E o \in subscriptions_ : Elapse(o))

FairSpec == Spec /\ Fairness

-----------------------------------------------------------------------------
\* The count that is_remote_subscription_limit_reached compares with the limit
\* never exceeds the number of subscriptions in the map, whatever order
\* children, refusals, unsubscriptions and expiry are handled in: nobody is
\* refused because of subscriptions that are gone.
NoFalseRefusal == remote_subscribers_count_ <= Cardinality(subscriptions_)

\* A client is acknowledged to a subscriber (send_subscription_ack) only if the
\* application accepted that client of that subscriber (on_subscribe_ack).
AcknowledgedWasAccepted ==
    \A t \in told : t[3] = "ACKED" => <<t[1], t[2]>> \in accepted

\* However the messages before it were interleaved with replies and expiry: a
\* Subscribe that meets no unfinished business and is left alone is answered
\* once all entries of its message are, and the clients it names are in the map
\* with the states the answer reports, unless the limit or the application
\* refused it (on_remote_subscribe to send_subscription_ack).
SubscribeSettles ==
    Quiet => \A e \in Subscribers : undisturbed[e] # 0 =>
        \E o \in Of(undisturbed[e]) :
            /\ subs[o].ep = e
            /\ \/ acks[undisturbed[e]].done
               \/ \E p \in Of(undisturbed[e]) : undisturbed[subs[p].ep] # undisturbed[e]
            /\ \/ \A c \in get_clients(subs[o]) : subs[o].state[c] = "NACKED"
               \/ \E p \in Equal(e) : \A c \in get_clients(subs[o]) :
                     subs[p].state[c] = subs[o].state[c] /\ subs[p].state[c] \in {"ACKED", "NACKED"}

\* Subscriptions that nobody renews disappear, also when their unsubscription
\* was lost on an older object: the timer removes them.
NothingStays == <>[](subscriptions_ = {})

\* vsomeipConfiguration.md: "Maximum possible number of different remote
\* subscribers. Additional remote subscribers will not be acknowledged."
\* (is_remote_subscription_limit_reached)
LimitRespected ==
    Cardinality({subs[o].ep : o \in {p \in subscriptions_ : \E c \in Clients : subs[p].state[c] = "ACKED"}})
        <= max_remote_subscribers_
============================================================================
