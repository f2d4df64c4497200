--------------------------- MODULE ServiceDiscovery ---------------------------
(***************************************************************************)
(* SOME/IP service discovery between two nodes, for one UDP service: a node *)
(* offers it, withdraws it, is suspended, resumed and rebooted; its peer    *)
(* hears of it, requests it and forgets it (service_discovery_impl.cpp, and *)
(* what routing_manager_impl.cpp does for it).                              *)
(*                                                                          *)
(* Messages go by multicast or by unicast.  UDP may lose them; within one   *)
(* of the two the order is kept, between them it is not.  The timers, the   *)
(* messages and the routing manager run on different io threads: a handler  *)
(* that gives up its locks in between is several steps.                     *)
(*                                                                          *)
(* Not in the code: in node, starts numbers the times sessions_sent_ was    *)
(* cleared, and told says how an Offer of a service info was sent; in the   *)
(* peer, starts and verdict compare what is_reboot() says with what was;    *)
(* past.history names the ways the withdrawal of a service passes the peer  *)
(* by, so that the service stays until its TTL ends.                        *)
(*   "lost"     the StopOffer was lost                                      *)
(*   "late"     an answer to a FindService was made before the withdrawal,  *)
(*              and sent after it                                           *)
(*   "untold"   an answer was sent during the initial wait phase, in which  *)
(*              a withdrawal is not announced                               *)
(*   "silenced" the withdrawal was left to the repetition phase, in which   *)
(*              a suspended node sends nothing                              *)
(*   "crossed"  a unicast Offer was overtaken by the multicast StopOffer    *)
(*   "reboot"   the node was rebooted, which is not announced at all        *)
(***************************************************************************)
EXTENDS Naturals, Sequences, FiniteSets, SequencesExt

CONSTANTS repetitions_max_,   \* of an Offer or a FindService
          SessionMax,         \* the last session before the wrap (65535)
          Ttl,                \* of an Offer, in runs of the TTL timer
          MaxUpsets,          \* offers, and whatever upsets them
          MaxQueued

ASSUME DiscoveryAssumption ==
    /\ repetitions_max_ \in Nat /\ SessionMax \in Nat \ {0} /\ Ttl \in Nat
    /\ MaxUpsets \in Nat /\ MaxQueued \in Nat \ {0}

VARIABLES node,   \* the offering node, a record
          peer,   \* the other one
          net,    \* what is under way
          past    \* bounds, and history

sdVars == <<node, peer, net, past>>

Channels == {"multicast", "unicast"}

Noted(p, what, when) == IF when THEN [p EXCEPT !.history = @ \cup {what}] ELSE p

Upset(p) == [p EXCEPT !.upsets = @ + 1]

MayUpset == past.upsets < MaxUpsets

NotBusy == [pc |-> "idle", info |-> 0, offered |-> FALSE]

\* An id that tells a new timer or handler from the others.
FreeId(S) == CHOOSE x \in 0..Cardinality(S) : \A r \in S : r.id # x

Node == [services_ |-> 0,                     \* the info of the local service, if any
         infos |-> <<>>,                      \* every serviceinfo created
         collected_offers_ |-> 0,             \* in the initial wait phase
         repetition_phase_timers_ |-> {},
         offer_debounce_timer_ |-> TRUE,
         debounce |-> {},                     \* the on_offer_debounce_timer_expired that run
         answer |-> NotBusy,                     \* process_findservice_serviceentry
         is_suspended_ |-> FALSE,
         sessions_sent_ |-> [c \in Channels |-> [session |-> 1, flag |-> TRUE]],
         starts |-> 1]

Unheard == [heard |-> FALSE, session |-> [c \in Channels |-> 0],
            flag |-> [c \in Channels |-> TRUE], starts |-> [c \in Channels |-> 0]]

Peer == [sessions_received_ |-> Unheard,
         known |-> FALSE, ttl |-> 0,          \* in services_remote_
         requested_ |-> FALSE, sent_counter_ |-> 0,
         find_timer |-> 0,                    \* its repetition, 0 when there is none
         endpoint |-> FALSE,                  \* the client endpoint of the service
         verdict |-> "right"]

-----------------------------------------------------------------------------
(* Sending.                                                                 *)

increment_session(s) == IF s.session = SessionMax THEN [session |-> 1, flag |-> FALSE]
                        ELSE [s EXCEPT !.session = @ + 1]

\* A StopOffer is an Offer with a TTL of 0.
insert_offer_service(n, i) == n.infos[i].ttl

Sent(n, c, i, offered) ==
    [n EXCEPT !.sessions_sent_[c] = increment_session(@),
              !.infos[i].told = IF offered THEN @ \cup {c} ELSE {}]

OnWire(w, c, n, offered) ==
    [w EXCEPT ![c] = Append(@, [offered |-> offered, starts |-> n.starts,
                                session |-> n.sessions_sent_[c].session, flag |-> n.sessions_sent_[c].flag])]

\* send(): node becomes n, and announces info i.
SendOffer(n, c, i, offered) == /\ Len(net[c]) < MaxQueued
                               /\ node' = Sent(n, c, i, offered)
                               /\ net' = OnWire(net, c, n, offered)

-----------------------------------------------------------------------------
(* Offering and withdrawing.                                                *)

discovery_offer_service ==
    /\ node.services_ = 0 /\ MayUpset
    /\ LET i == Len(node.infos) + 1
       IN  node' = [node EXCEPT !.infos = Append(@, [ttl |-> TRUE, is_in_mainphase |-> FALSE, told |-> {}]),
                                !.services_ = i,
                                !.collected_offers_ = IF @ = 0 THEN i ELSE @]
    /\ past' = Upset(past)
    /\ UNCHANGED <<peer, net>>

Timed(n, i) == \E t \in n.repetition_phase_timers_ : t.info = i

\* What stop_offer_service does but for sending.
Withdrawn(n, i) ==
    [n EXCEPT !.infos[i].ttl = FALSE,
              !.collected_offers_ = IF @ = i THEN 0 ELSE @,
              !.repetition_phase_timers_ = {t \in @ : t.info # i}]

\* Variant: the repetition phase is forgotten.
RequiredInMainPhase(n, i) == n.infos[i].is_in_mainphase

stop_offer_required(n, i) == n.infos[i].is_in_mainphase \/ Timed(n, i)

\* The message of the withdrawal of i, after which the node is n.
SendStopOffer(n, i) ==
    IF stop_offer_required(node, i)
    THEN SendOffer(n, "multicast", i, FALSE)
    ELSE node' = n /\ UNCHANGED net

Untold(i) == node.collected_offers_ = i /\ node.infos[i].told # {}

discovery_stop_offer_service ==
    /\ node.services_ # 0
    /\ LET i == node.services_
       IN  /\ SendStopOffer([Withdrawn(node, i) EXCEPT !.services_ = 0], i)
           /\ past' = Noted(past, "untold", Untold(i))
    /\ UNCHANGED peer

discovery_stop(n) == [n EXCEPT !.is_suspended_ = TRUE, !.offer_debounce_timer_ = FALSE]

discovery_start(n) == [n EXCEPT !.is_suspended_ = FALSE, !.offer_debounce_timer_ = TRUE,
                                !.sessions_sent_ = Node.sessions_sent_, !.starts = @ + 1]

\* set_routing_state(RS_SUSPENDED)
Suspend ==
    /\ ~node.is_suspended_ /\ MayUpset
    /\ LET i == node.services_
           n == discovery_stop(node)
       IN  IF i = 0
           THEN node' = n /\ UNCHANGED net /\ past' = Upset(past)
           ELSE /\ SendStopOffer(Withdrawn(n, i), i)
                /\ past' = Noted(Upset(past), "untold", Untold(i))
    /\ UNCHANGED peer

\* set_routing_state(RS_RESUMED)
Resume ==
    /\ node.is_suspended_
    /\ LET i == node.services_
           n == discovery_start(node)
       IN  node' = IF i = 0 THEN n
                   ELSE [n EXCEPT !.infos[i].ttl = TRUE, !.infos[i].is_in_mainphase = FALSE,
                                  !.collected_offers_ = IF @ = 0 THEN i ELSE @]
    /\ UNCHANGED <<peer, net, past>>

\* The node fails and starts again.
Reboot ==
    /\ MayUpset
    /\ node' = [Node EXCEPT !.starts = node.starts + 1]
    /\ past' = Noted(Upset(past), "reboot", TRUE)
    /\ UNCHANGED <<peer, net>>

-----------------------------------------------------------------------------
(* The phases of an Offer.                                                  *)

\* on_offer_debounce_timer_expired: the offers are taken over (resuming starts the
\* timer while an earlier handler may still be under way),
DebounceCopy ==
    /\ node.offer_debounce_timer_ /\ node.collected_offers_ # 0
    /\ node' = [node EXCEPT !.offer_debounce_timer_ = FALSE, !.collected_offers_ = 0,
                            !.debounce = @ \cup {[id |-> FreeId(@), pc |-> "copied", info |-> node.collected_offers_]}]
    /\ UNCHANGED <<peer, net, past>>

\* sent,
DebounceSend(h) ==
    /\ h.pc = "copied"
    /\ LET n == [node EXCEPT !.debounce = (@ \ {h}) \cup {[h EXCEPT !.pc = "sent"]}]
       IN  IF node.is_suspended_ THEN node' = n /\ UNCHANGED net
           ELSE SendOffer(n, "multicast", h.info, insert_offer_service(node, h.info))
    /\ UNCHANGED <<peer, past>>

\* and given a timer.
DebounceDone(h) ==
    /\ h.pc = "sent"
    /\ node' = [node EXCEPT !.debounce = @ \ {h}, !.offer_debounce_timer_ = TRUE,
                            !.repetition_phase_timers_ =
                                @ \cup {[id |-> FreeId(@), info |-> h.info,
                                        repetition |-> IF repetitions_max_ > 0 THEN 1 ELSE 0]}]
    /\ UNCHANGED <<peer, net, past>>

\* Variant: the timer is erased and its offers are in no phase.
ForgetOffers(n, t) == [n EXCEPT !.repetition_phase_timers_ = @ \ {t}]

move_offers_into_main_phase(n, t) ==
    [n EXCEPT !.infos[t.info].is_in_mainphase = TRUE,
              !.repetition_phase_timers_ = @ \ {t}]

\* Whether the last cyclic offer is less than half its delay ago: any answer.
last_offer_shorter_half_offer_delay_ago == BOOLEAN

on_repetition_phase_timer_expired(t) ==
    LET Again(r) == [node EXCEPT !.repetition_phase_timers_ = (@ \ {t}) \cup {[t EXCEPT !.repetition = r]}]
        offered == insert_offer_service(node, t.info)
        SendOrNot(next) == IF node.is_suspended_ THEN node' = next /\ UNCHANGED net
                           ELSE SendOffer(next, "multicast", t.info, offered)
    IN  /\ \/ /\ t.repetition = 0
              /\ node' = move_offers_into_main_phase(node, t)
              /\ UNCHANGED net
           \/ /\ t.repetition > 0
              /\ \/ t.repetition <= repetitions_max_ /\ SendOrNot(Again(t.repetition + 1))
                 \/ /\ t.repetition > repetitions_max_
                    /\ \E shorter \in last_offer_shorter_half_offer_delay_ago :
                          SendOrNot(IF shorter THEN move_offers_into_main_phase(node, t) ELSE Again(0))
        /\ past' = Noted(past, "silenced", /\ node.is_suspended_ \/ t.repetition = 0
                                          /\ node.infos[t.info].told # {} /\ ~offered)
        /\ UNCHANGED peer

on_main_phase_timer_expired ==
    /\ node.services_ # 0 /\ ~node.is_suspended_
    /\ node.infos[node.services_].is_in_mainphase
    /\ SendOffer(node, "multicast", node.services_, insert_offer_service(node, node.services_))
    /\ UNCHANGED <<peer, past>>

\* A FindService arrives: the answer is made,
process_findservice_serviceentry ==
    /\ net.find > 0 /\ node.answer = NotBusy
    /\ net' = [net EXCEPT !.find = @ - 1]
    /\ node' = IF node.is_suspended_ \/ node.services_ = 0 THEN node
               ELSE [node EXCEPT !.answer = [pc |-> "made", info |-> node.services_,
                                             offered |-> insert_offer_service(node, node.services_)]]
    /\ UNCHANGED <<peer, past>>

send_uni_or_multicast_offerservice(shorter) == IF shorter THEN "unicast" ELSE "multicast"

\* and sent.
AnswerSend ==
    /\ node.answer # NotBusy
    /\ LET i == node.answer.info
       IN  /\ \E shorter \in last_offer_shorter_half_offer_delay_ago :
                 SendOffer([node EXCEPT !.answer = NotBusy],
                           send_uni_or_multicast_offerservice(shorter), i, node.answer.offered)
           /\ past' = Noted(past, "late", node.answer.offered /\ ~node.infos[i].ttl)
    /\ UNCHANGED peer

-----------------------------------------------------------------------------
(* The peer.                                                                *)

\* An application requests the service (routing_manager_impl and discovery).
discovery_request_service ==
    /\ ~peer.requested_ /\ MayUpset
    /\ peer' = [peer EXCEPT !.requested_ = TRUE, !.endpoint = peer.known]
    /\ past' = Upset(past)
    /\ UNCHANGED <<node, net>>

\* insert_find_entries, and sending them.
InsertFind(p) ==
    IF p.sent_counter_ = repetitions_max_ + 1
    THEN peer' = p /\ UNCHANGED net
    ELSE peer' = [p EXCEPT !.sent_counter_ = @ + 1] /\ net' = [net EXCEPT !.find = @ + 1]

on_find_debounce_timer_expired ==
    /\ peer.requested_ /\ peer.sent_counter_ = 0
    /\ InsertFind([peer EXCEPT !.find_timer = 1])
    /\ UNCHANGED <<node, past>>

on_find_repetition_phase_timer_expired ==
    /\ peer.find_timer > 0
    /\ IF peer.find_timer <= repetitions_max_
       THEN InsertFind([peer EXCEPT !.find_timer = @ + 1])
       ELSE peer' = [peer EXCEPT !.find_timer = 0] /\ UNCHANGED net
    /\ UNCHANGED <<node, past>>

update_request(p) == IF p.requested_ THEN [p EXCEPT !.sent_counter_ = repetitions_max_ + 1] ELSE p

add_routing_info(p) == [p EXCEPT !.known = TRUE, !.ttl = Ttl, !.endpoint = p.requested_]

del_routing_info(p) == [p EXCEPT !.known = FALSE, !.ttl = 0, !.endpoint = FALSE]

\* Variant: the same session again is no reboot.
IsRebootBelow(r, c, m) ==
    r.heard /\ m.flag /\ (~r.flag[c] \/ r.session[c] > m.session)

is_reboot(r, c, m) ==
    r.heard /\ m.flag /\ (~r.flag[c] \/ r.session[c] >= m.session)

\* The sender is forgotten with the message that shows its reboot.
Recorded(r, c, m) ==
    IF is_reboot(r, c, m) THEN Unheard
    ELSE [r EXCEPT !.heard = TRUE, !.session[c] = m.session, !.flag[c] = m.flag, !.starts[c] = m.starts]

\* Services are found by the client endpoint that leads to the node.
expire_services(p) == IF p.endpoint THEN del_routing_info(p) ELSE p

Verdict(r, c, m) ==
    IF is_reboot(r, c, m) THEN IF r.starts[c] = m.starts THEN "false" ELSE "right"
    ELSE IF r.starts[c] \notin {0, m.starts} /\ m.session = 1 /\ m.flag THEN "missed" ELSE "right"

process_offerservice_serviceentry(p) == add_routing_info(update_request(p))

process_serviceentry(p, m) ==
    IF m.offered THEN process_offerservice_serviceentry(p) ELSE del_routing_info(update_request(p))

discovery_on_message(c) ==
    /\ net[c] # <<>>
    /\ LET m == Head(net[c])
           r == peer.sessions_received_
           p == [peer EXCEPT !.sessions_received_ = Recorded(r, c, m), !.verdict = Verdict(r, c, m)]
       IN  /\ peer' = process_serviceentry(IF is_reboot(r, c, m) THEN expire_services(p) ELSE p, m)
           /\ past' = Noted(past, "crossed", ~m.offered /\ \E k \in DOMAIN net.unicast : net.unicast[k].offered)
    /\ net' = [net EXCEPT ![c] = Tail(@)]
    /\ UNCHANGED node

update_routing_info(p) == IF p.ttl = 0 THEN del_routing_info(p) ELSE [p EXCEPT !.ttl = @ - 1]

\* Variant: an expired service is kept.
CheckOnly ==
    /\ peer.known
    /\ peer' = IF peer.ttl = 0 THEN peer ELSE [peer EXCEPT !.ttl = @ - 1]
    /\ UNCHANGED <<node, net, past>>

check_ttl ==
    /\ peer.known
    /\ peer' = update_routing_info(peer)
    /\ UNCHANGED <<node, net, past>>

\* The network loses a message.
Lose(c) ==
    /\ MayUpset /\ net[c] # <<>>
    /\ net' = [net EXCEPT ![c] = Tail(@)]
    /\ past' = Noted(Upset(past), "lost", ~Head(net[c]).offered)
    /\ UNCHANGED <<node, peer>>

LoseFind ==
    /\ MayUpset /\ net.find > 0
    /\ net' = [net EXCEPT !.find = @ - 1]
    /\ past' = Upset(past)
    /\ UNCHANGED <<node, peer>>

-----------------------------------------------------------------------------

SdInit == /\ node = Node /\ peer = Peer
          /\ net = [multicast |-> <<>>, unicast |-> <<>>, find |-> 0]
          /\ past = [upsets |-> 0, history |-> {}]

Environment == \/ discovery_offer_service \/ discovery_stop_offer_service \/ Suspend \/ Resume \/ Reboot
               \/ discovery_request_service
               \/ \E c \in Channels : Lose(c)
               \/ LoseFind

NodeHandler == \/ DebounceCopy
               \/ \E h \in node.debounce : DebounceSend(h) \/ DebounceDone(h)
               \/ \E t \in node.repetition_phase_timers_ : on_repetition_phase_timer_expired(t)
               \/ process_findservice_serviceentry \/ AnswerSend

PeerHandler == on_find_debounce_timer_expired \/ on_find_repetition_phase_timer_expired

SdNext == \/ Environment \/ NodeHandler \/ PeerHandler \/ on_main_phase_timer_expired
          \/ check_ttl \/ \E c \in Channels : discovery_on_message(c)

SdFairness == /\ WF_sdVars(NodeHandler) /\ WF_sdVars(PeerHandler)
              /\ WF_sdVars(on_main_phase_timer_expired) /\ WF_sdVars(check_ttl)
              /\ \A c \in Channels : WF_sdVars(discovery_on_message(c))

SdSpec == SdInit /\ [][SdNext]_sdVars /\ SdFairness

-----------------------------------------------------------------------------
(* Properties.                                                              *)

Offered == node.services_ # 0 /\ ~node.is_suspended_

\* Nothing is under way, and nothing due, that will still tell the peer.
AllTold == /\ \A c \in Channels : net[c] = <<>>
           /\ node.answer = NotBusy /\ node.debounce = {}
           /\ \A t \in node.repetition_phase_timers_ : node.infos[t.info].ttl

\* is_reboot reports a reboot only when the sender has cleared its sessions since
\* its last message on that channel, whatever was lost and however often the
\* session wrapped; and it recognises the first message after every reboot or
\* resume, unless nothing is recorded for the channel.
RebootsRecognised == peer.verdict = "right"

\* A service that was withdrawn (stop_offer_service, suspend) in whatever phase
\* of its Offer, in the middle of the debounce handler too, is not known to the
\* peer any more once all messages have arrived, except in the ways history names.
WithdrawnIsForgotten == AllTold /\ past.history = {} /\ peer.known => Offered

\* service_discovery_impl.cpp:2730, where a service is withdrawn during the initial
\* wait phase: "No need to sent out a stop offer message here as all services
\* instances contained in the collected offers weren't broadcasted yet".
CollectedNotBroadcast ==
    node.collected_offers_ # 0 => "multicast" \notin node.infos[node.collected_offers_].told

\* A service that stays offered is known to the peer again and again: whatever
\* was lost, and in spite of reboots, suspends and StopOffers that come late, it
\* gets through the wait and repetition phases to the cyclic Offers.
OffersHeard == <>[]Offered => []<>(peer.known)

\* A service that stays withdrawn is forgotten for good in the end, at the latest
\* when the TTL timer finds the TTL of its last Offer over (check_ttl), in all the
\* ways history names too.
GoneExpires == <>[]~Offered => <>[]~peer.known
=============================================================================
