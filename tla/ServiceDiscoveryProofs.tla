----------------------- MODULE ServiceDiscoveryProofs -----------------------
(***************************************************************************)
(* Proofs about ServiceDiscovery, for every number of repetitions, every   *)
(* largest session and any number of offers, reboots, suspends and lost    *)
(* messages: what is_reboot() says of a message is right, and a service    *)
(* that was withdrawn is forgotten by the peer once all messages arrived,  *)
(* but for the ways past.history names.                                    *)
(***************************************************************************)
EXTENDS ServiceDiscovery, TLAPS

-----------------------------------------------------------------------------
(* The shape of the state                                                  *)

Info == [ttl : BOOLEAN, is_in_mainphase : BOOLEAN, told : SUBSET Channels]

Sessions == [session : Nat \ {0}, flag : BOOLEAN]

Message == [offered : BOOLEAN, starts : Nat \ {0}, session : Nat \ {0}, flag : BOOLEAN]

IsHandler(h) == h = [id |-> h.id, pc |-> h.pc, info |-> h.info]

IsTimer(t) == t = [id |-> t.id, info |-> t.info, repetition |-> t.repetition] /\ t.repetition \in Nat

\* The service, the offers collected, the timers and the handlers are about infos.
IsNode(n) ==
    /\ n = [services_ |-> n.services_, infos |-> n.infos, collected_offers_ |-> n.collected_offers_,
            repetition_phase_timers_ |-> n.repetition_phase_timers_,
            offer_debounce_timer_ |-> n.offer_debounce_timer_, debounce |-> n.debounce, answer |-> n.answer,
            is_suspended_ |-> n.is_suspended_, sessions_sent_ |-> n.sessions_sent_, starts |-> n.starts]
    /\ n.infos \in Seq(Info)
    /\ n.services_ \in 0..Len(n.infos) /\ n.collected_offers_ \in {0, n.services_}
    /\ \A t \in n.repetition_phase_timers_ : IsTimer(t) /\ t.info \in 1..Len(n.infos)
    /\ \A h \in n.debounce : IsHandler(h) /\ h.info \in 1..Len(n.infos)
    /\ n.answer \in [pc : {"idle", "made"}, info : 0..Len(n.infos), offered : BOOLEAN]
    /\ n.answer # NotBusy => n.answer.info # 0
    /\ n.is_suspended_ \in BOOLEAN
    /\ n.sessions_sent_ \in [Channels -> Sessions] /\ n.starts \in Nat \ {0}

IsPeer(p) ==
    /\ p = [sessions_received_ |-> p.sessions_received_, known |-> p.known, ttl |-> p.ttl,
            requested_ |-> p.requested_, sent_counter_ |-> p.sent_counter_, find_timer |-> p.find_timer,
            endpoint |-> p.endpoint, verdict |-> p.verdict]
    /\ p.sessions_received_ \in [heard : BOOLEAN, session : [Channels -> Nat], flag : [Channels -> BOOLEAN],
                                 starts : [Channels -> Nat]]

IsNet(w) ==
    /\ w = [x \in Channels \cup {"find"} |-> w[x]]
    /\ \A c \in Channels : w[c] \in Seq(Message)

Shape == IsNode(node) /\ IsPeer(peer) /\ IsNet(net) /\ past = [upsets |-> past.upsets, history |-> past.history]

\* Replacing an info.
LEMMA InfoReplaced ==
    ASSUME NEW infos \in Seq(Info), NEW i \in 1..Len(infos), NEW r \in Info
    PROVE  LET t == [infos EXCEPT ![i] = r]
           IN  /\ t \in Seq(Info) /\ Len(t) = Len(infos) /\ infos[i] \in Info
               /\ t[i] = r /\ \A j \in 1..Len(infos) : j # i => t[j] = infos[j]
OBVIOUS

\* A session is incremented.
LEMMA IncrementType ==
    ASSUME NEW s \in Sessions
    PROVE  /\ increment_session(s) \in Sessions
           /\ increment_session(s).flag => s.flag /\ s.session < increment_session(s).session
<1>1. CASE s.session = SessionMax
  BY <1>1 DEF increment_session, Sessions
<1>2. CASE s.session # SessionMax
  BY <1>2 DEF increment_session, Sessions
<1> QED
  BY <1>1, <1>2

\* Sending an Offer or a StopOffer of info i: what the info says was told, and the
\* session, is all that changes of the node.
SentAs(n, c, i, offered) ==
    /\ IsNode(node') /\ IsNet(net')
    /\ Len(node'.infos) = Len(n.infos)
    /\ \A j \in 1..Len(n.infos) :
          /\ node'.infos[j].ttl = n.infos[j].ttl
          /\ node'.infos[j].is_in_mainphase = n.infos[j].is_in_mainphase
          /\ j # i => node'.infos[j].told = n.infos[j].told
    /\ node'.infos[i].told # {} <=> offered
    /\ node'.services_ = n.services_ /\ node'.collected_offers_ = n.collected_offers_
    /\ node'.repetition_phase_timers_ = n.repetition_phase_timers_
    /\ node'.debounce = n.debounce /\ node'.answer = n.answer
    /\ node'.is_suspended_ = n.is_suspended_ /\ node'.starts = n.starts
    /\ node'.sessions_sent_ = [n.sessions_sent_ EXCEPT ![c] = increment_session(@)]
    /\ net'[c] = Append(net[c], [offered |-> offered, starts |-> n.starts,
                                 session |-> n.sessions_sent_[c].session, flag |-> n.sessions_sent_[c].flag])
    /\ \A d \in Channels \ {c} : net'[d] = net[d]

\* SendOffer builds and sends the message so (send_offer_service and its callers).
LEMMA SendFields ==
    ASSUME NEW n, IsNode(n), IsNet(net), NEW c \in Channels, NEW i \in 1..Len(n.infos), NEW offered \in BOOLEAN,
           SendOffer(n, c, i, offered)
    PROVE  SentAs(n, c, i, offered)
<1> DEFINE told == IF offered THEN n.infos[i].told \cup {c} ELSE {}
           r == [n.infos[i] EXCEPT !.told = told]
           infos == [n.infos EXCEPT ![i] = r]
           sent == [n.sessions_sent_ EXCEPT ![c] = increment_session(@)]
           m == [offered |-> offered, starts |-> n.starts,
                 session |-> n.sessions_sent_[c].session, flag |-> n.sessions_sent_[c].flag]
<1>1. n.infos \in Seq(Info) /\ n.infos[i] \in Info
  BY DEF IsNode
<1>2. told \subseteq Channels /\ (told # {} <=> offered)
  BY <1>1 DEF Info
<1> HIDE DEF told
<1>3. r \in Info /\ r.ttl = n.infos[i].ttl /\ r.is_in_mainphase = n.infos[i].is_in_mainphase /\ r.told = told
  BY <1>1, <1>2 DEF Info
<1> HIDE DEF r
<1>4. /\ infos \in Seq(Info) /\ Len(infos) = Len(n.infos)
      /\ infos[i] = r /\ \A j \in 1..Len(n.infos) : j # i => infos[j] = n.infos[j]
  BY <1>1, <1>3, InfoReplaced
<1>5. sent \in [Channels -> Sessions]
  BY IncrementType DEF IsNode
<1>6. m \in Message
  BY DEF IsNode, Message, Sessions
<1>7. node' = [n EXCEPT !.sessions_sent_ = sent, !.infos = infos]
  BY DEF SendOffer, Sent, sent, infos, r, told
<1> HIDE DEF infos, sent
<1>8. /\ node' = [services_ |-> n.services_, infos |-> infos, collected_offers_ |-> n.collected_offers_,
                  repetition_phase_timers_ |-> n.repetition_phase_timers_,
                  offer_debounce_timer_ |-> n.offer_debounce_timer_, debounce |-> n.debounce, answer |-> n.answer,
                  is_suspended_ |-> n.is_suspended_, sessions_sent_ |-> sent, starts |-> n.starts]
  BY <1>7 DEF IsNode
<1>9. IsNode(node')
  BY <1>4, <1>5, <1>8 DEF IsNode
<1>10. net' = [net EXCEPT ![c] = Append(@, m)]
  BY DEF SendOffer, OnWire
<1> HIDE DEF m
<1>11. IsNet(net') /\ net'[c] = Append(net[c], m) /\ \A d \in Channels \ {c} : net'[d] = net[d]
  <2>1. net[c] \in Seq(Message)
    BY DEF IsNet, Channels
  <2> DEFINE q == Append(net[c], m)
  <2>2. q \in Seq(Message) /\ net' = [net EXCEPT ![c] = q]
    BY <1>6, <1>10, <2>1
  <2> HIDE DEF q
  <2>3. IsNet(net') /\ net'[c] = q /\ \A d \in Channels \ {c} : net'[d] = net[d]
    BY <2>2 DEF IsNet
  <2> QED
    BY <2>3 DEF q
<1>12. \A j \in 1..Len(n.infos) : /\ infos[j].ttl = n.infos[j].ttl
                                  /\ infos[j].is_in_mainphase = n.infos[j].is_in_mainphase
                                  /\ j # i => infos[j].told = n.infos[j].told
  BY <1>3, <1>4
<1>13. infos[i].told # {} <=> offered
  BY <1>2, <1>3, <1>4
<1> QED
  BY <1>4, <1>8, <1>9, <1>11, <1>12, <1>13 DEF sent, m, SentAs

-----------------------------------------------------------------------------
(* The phases of an offer                                                  *)

Debounced(n, i) == \E h \in n.debounce : h.info = i

\* Only the service has a time to live, as long as it is offered, and is in one of its
\* phases then; offered while the node is suspended, it is not announced.
Phased(n) ==
    /\ n.services_ # 0 /\ ~n.is_suspended_ => n.infos[n.services_].ttl
    /\ n.answer # NotBusy => n.answer.offered
    /\ \A i \in 1..Len(n.infos) : n.infos[i].ttl =>
          /\ i = n.services_
          /\ n.is_suspended_ => n.infos[i].told = {} /\ (n.answer # NotBusy => n.answer.info # i)
          /\ n.infos[i].is_in_mainphase \/ n.collected_offers_ = i \/ Timed(n, i) \/ Debounced(n, i)

\* An info the peer was told of is offered, or a timer or a handler will withdraw it.
Due(n, i) == n.infos[i].told # {} => n.infos[i].ttl \/ Timed(n, i) \/ Debounced(n, i)

AllDue(n) == \A i \in 1..Len(n.infos) : Due(n, i)

SomethingTold(n) == \E i \in 1..Len(n.infos) : n.infos[i].told # {}

\* A StopOffer is among the messages of q behind the first j.
StopBehind(q, j) == \E k \in 1..Len(q) : k > j /\ ~q[k].offered

\* An Offer is among the unicast messages.
Answered(w) == \E k \in 1..Len(w["unicast"]) : w["unicast"][k].offered

\* If the peer knows the service, or will, and no StopOffer follows, the node still
\* counts an info as told.
Remembered(n, known, w) ==
    /\ known \/ Answered(w) => StopBehind(w["multicast"], 0) \/ SomethingTold(n)
    /\ \A j \in 1..Len(w["multicast"]) : w["multicast"][j].offered => StopBehind(w["multicast"], j) \/ SomethingTold(n)

OfferInv == /\ Shape /\ Phased(node)
            /\ past.history = {} => AllDue(node) /\ Remembered(node, peer.known, net)

\* Sending keeps the service in its phases.
LEMMA SentPhased ==
    ASSUME NEW n, IsNode(n), IsNet(net), NEW c \in Channels, NEW i \in 1..Len(n.infos), NEW offered \in BOOLEAN,
           SendOffer(n, c, i, offered), Phased(n), offered => ~(n.is_suspended_ /\ n.infos[i].ttl)
    PROVE  Phased(node')
<1>1. /\ IsNode(node') /\ Len(node'.infos) = Len(n.infos)
      /\ \A j \in 1..Len(n.infos) :
            /\ node'.infos[j].ttl = n.infos[j].ttl
            /\ node'.infos[j].is_in_mainphase = n.infos[j].is_in_mainphase
            /\ j # i => node'.infos[j].told = n.infos[j].told
      /\ node'.infos[i].told # {} <=> offered
      /\ node'.services_ = n.services_ /\ node'.collected_offers_ = n.collected_offers_
      /\ node'.repetition_phase_timers_ = n.repetition_phase_timers_
      /\ node'.debounce = n.debounce /\ node'.answer = n.answer
      /\ node'.is_suspended_ = n.is_suspended_
  <2>1. SentAs(n, c, i, offered)
    BY SendFields
  <2> QED
    BY <2>1 DEF SentAs
<1>2. \A j \in 1..Len(n.infos) : (Timed(node', j) <=> Timed(n, j)) /\ (Debounced(node', j) <=> Debounced(n, j))
  BY <1>1 DEF Timed, Debounced
<1>3. n.services_ # 0 => n.services_ \in 1..Len(n.infos)
  BY DEF IsNode
<1>4. n.services_ # 0 /\ ~n.is_suspended_ => node'.infos[n.services_].ttl
  BY <1>1, <1>3 DEF Phased
<1>5. ASSUME NEW j \in 1..Len(n.infos), node'.infos[j].ttl
      PROVE  /\ j = n.services_
             /\ n.is_suspended_ => node'.infos[j].told = {} /\ (n.answer # NotBusy => n.answer.info # j)
             /\ \/ node'.infos[j].is_in_mainphase \/ n.collected_offers_ = j
                \/ Timed(node', j) \/ Debounced(node', j)
  <2>1. n.infos[j].ttl
    BY <1>1, <1>5
  <2> QED
    BY <1>1, <1>2, <2>1 DEF Phased
<1> QED
  BY <1>1, <1>4, <1>5 DEF Phased

\* An info that is announced, and any other, is due if it was.
LEMMA SentDue ==
    ASSUME NEW n, IsNode(n), IsNet(net), NEW c \in Channels, NEW i \in 1..Len(n.infos), NEW offered \in BOOLEAN,
           SendOffer(n, c, i, offered), \A j \in 1..Len(n.infos) : j # i => Due(n, j), offered => Due(n, i) /\ n.infos[i].ttl
    PROVE  AllDue(node')
<1>1. /\ Len(node'.infos) = Len(n.infos)
      /\ \A j \in 1..Len(n.infos) :
            /\ node'.infos[j].ttl = n.infos[j].ttl
            /\ j # i => node'.infos[j].told = n.infos[j].told
      /\ node'.infos[i].told # {} <=> offered
      /\ node'.repetition_phase_timers_ = n.repetition_phase_timers_
      /\ node'.debounce = n.debounce
  <2>1. SentAs(n, c, i, offered)
    BY SendFields
  <2> QED
    BY <2>1 DEF SentAs
<1>2. \A j \in 1..Len(n.infos) : (Timed(node', j) <=> Timed(n, j)) /\ (Debounced(node', j) <=> Debounced(n, j))
  BY <1>1 DEF Timed, Debounced
<1> QED
  BY <1>1, <1>2 DEF AllDue, Due

\* A message that is an Offer is counted as told; nothing is behind a StopOffer.
LEMMA SentRemembered ==
    ASSUME NEW n, IsNode(n), IsNet(net), NEW c \in Channels, NEW i \in 1..Len(n.infos), NEW offered \in BOOLEAN,
           SendOffer(n, c, i, offered), offered \/ c = "multicast", NEW known
    PROVE  Remembered(node', known, net')
<1>1. /\ Len(node'.infos) = Len(n.infos) /\ (node'.infos[i].told # {} <=> offered)
      /\ net'[c] = Append(net[c], [offered |-> offered, starts |-> n.starts,
                                   session |-> n.sessions_sent_[c].session, flag |-> n.sessions_sent_[c].flag])
  <2>1. SentAs(n, c, i, offered)
    BY SendFields
  <2> QED
    BY <2>1 DEF SentAs
<1>2. CASE offered
  <2>1. SomethingTold(node')
    BY <1>1, <1>2 DEF SomethingTold
  <2> QED
    BY <2>1 DEF Remembered
<1>3. CASE ~offered
  <2> DEFINE q == net'["multicast"]
  <2>1. net[c] \in Seq(Message) /\ c = "multicast"
    BY <1>3 DEF IsNet
  <2>2. Len(q) \in Nat \ {0} /\ q[Len(q)].offered = FALSE
    BY <1>1, <1>3, <2>1
  <2> HIDE DEF q
  <2>3. \A j \in 0..Len(q) : j < Len(q) => StopBehind(q, j)
    BY <2>2 DEF StopBehind
  <2>4. \A j \in 1..Len(q) : q[j].offered => j # Len(q)
    BY <2>2
  <2>5. StopBehind(q, 0) /\ \A j \in 1..Len(q) : q[j].offered => StopBehind(q, j)
    BY <2>2, <2>3, <2>4
  <2> QED
    BY <2>5 DEF Remembered, q
<1> QED
  BY <1>2, <1>3

-----------------------------------------------------------------------------
(* What a step is for the sessions                                         *)

\* The node sends a message, starts its sessions anew, a message is lost, or arrives.
Same == node'.starts = node.starts /\ node'.sessions_sent_ = node.sessions_sent_

Unheeded == peer'.sessions_received_ = peer.sessions_received_ /\ peer'.verdict = peer.verdict

Channelled(c, q) == net'[c] = q /\ \A d \in Channels \ {c} : net'[d] = net[d]

Silent == Same /\ Unheeded /\ \A c \in Channels : net'[c] = net[c]

Sends(c, offered) ==
    /\ node'.starts = node.starts
    /\ node'.sessions_sent_ = [node.sessions_sent_ EXCEPT ![c] = increment_session(@)]
    /\ Unheeded
    /\ Channelled(c, Append(net[c], [offered |-> offered, starts |-> node.starts,
                                     session |-> node.sessions_sent_[c].session,
                                     flag |-> node.sessions_sent_[c].flag]))

Restarts == /\ node'.starts = node.starts + 1 /\ node'.sessions_sent_ = Node.sessions_sent_
            /\ Unheeded /\ \A c \in Channels : net'[c] = net[c]

Loses(c) == net[c] # <<>> /\ Same /\ Unheeded /\ Channelled(c, Tail(net[c]))

Arrives(c) == /\ net[c] # <<>> /\ Same /\ Channelled(c, Tail(net[c]))
              /\ peer'.sessions_received_ = Recorded(peer.sessions_received_, c, Head(net[c]))
              /\ peer'.verdict = Verdict(peer.sessions_received_, c, Head(net[c]))

SessionStep == \/ Silent \/ Restarts
               \/ \E c \in Channels : Loses(c) \/ Arrives(c) \/ \E offered \in BOOLEAN : Sends(c, offered)

\* A step that sends, the node being n but for the message.
LEMMA SendStep ==
    ASSUME OfferInv, NEW n, IsNode(n), n.starts = node.starts, n.sessions_sent_ = node.sessions_sent_,
           NEW c \in Channels, NEW i \in 1..Len(n.infos), NEW offered \in BOOLEAN, SendOffer(n, c, i, offered),
           Phased(n), offered => ~(n.is_suspended_ /\ n.infos[i].ttl), offered \/ c = "multicast",
           past' = [upsets |-> past'.upsets, history |-> past'.history], peer' = peer,
           past'.history = {} => (\A j \in 1..Len(n.infos) : j # i => Due(n, j)) /\ (offered => n.infos[i].ttl)
    PROVE  OfferInv' /\ SessionStep
<1>1. IsNet(net) /\ IsPeer(peer)
  BY DEF OfferInv, Shape
<1>2. SentAs(n, c, i, offered)
  BY <1>1, SendFields
<1>3. Shape'
  BY <1>1, <1>2 DEF Shape, SentAs
<1>4. Phased(node')
  BY <1>1, SentPhased
<1>5. past'.history = {} => AllDue(node')
  <2>1. n.infos[i].ttl => Due(n, i)
    BY DEF Due
  <2> QED
    BY <1>1, <2>1, SentDue
<1>6. Remembered(node', peer.known, net')
  BY <1>1, SentRemembered
<1>7. Sends(c, offered)
  BY <1>2 DEF SentAs, Sends, Unheeded, Channelled
<1> QED
  BY <1>3, <1>4, <1>5, <1>6, <1>7 DEF OfferInv, SessionStep

\* A step that sends nothing.
LEMMA SilentStep ==
    ASSUME OfferInv, IsNode(node'), Phased(node'), IsNet(net'), \A c \in Channels : net'[c] = net[c], Same,
           IsPeer(peer'), Unheeded, peer'.known => peer.known,
           past' = [upsets |-> past'.upsets, history |-> past'.history],
           past'.history = {} => /\ past.history = {} /\ AllDue(node')
                                 /\ SomethingTold(node) => SomethingTold(node')
    PROVE  OfferInv' /\ SessionStep
<1>1. net'["multicast"] = net["multicast"] /\ net'["unicast"] = net["unicast"]
  BY DEF Channels
<1>2. past'.history = {} => Remembered(node', peer'.known, net')
  BY <1>1 DEF OfferInv, Remembered, Answered
<1>3. Shape'
  BY DEF Shape
<1> QED
  BY <1>2, <1>3 DEF OfferInv, SessionStep, Silent

-----------------------------------------------------------------------------
(* Offering and withdrawing                                                *)

\* What stop_offer_service changes, n being the node before and w after it.
IsWithdrawn(n, w, i) ==
    /\ IsNode(w) /\ Len(w.infos) = Len(n.infos)
    /\ w.infos[i].ttl = FALSE
    /\ \A j \in 1..Len(n.infos) : /\ w.infos[j].told = n.infos[j].told
                                  /\ j # i => w.infos[j].ttl = n.infos[j].ttl
    /\ w.repetition_phase_timers_ = {t \in n.repetition_phase_timers_ : t.info # i}
    /\ w.debounce = n.debounce /\ w.answer = n.answer
    /\ w.starts = n.starts /\ w.sessions_sent_ = n.sessions_sent_

\* The node that is withdrawing its service, and forgets it or is suspended.
LEMMA WithdrawnFields ==
    ASSUME IsNode(node), node.services_ # 0, NEW n, NEW w,
           \/ n = node /\ w = [Withdrawn(n, node.services_) EXCEPT !.services_ = 0]
           \/ n = discovery_stop(node) /\ w = Withdrawn(n, node.services_)
    PROVE  IsWithdrawn(node, w, node.services_) /\ (w.services_ = 0 \/ w.is_suspended_)
<1> DEFINE i == node.services_
           r == [node.infos[i] EXCEPT !.ttl = FALSE]
           infos == [node.infos EXCEPT ![i] = r]
           timers == {t \in node.repetition_phase_timers_ : t.info # i}
<1>1. i \in 1..Len(node.infos) /\ node.infos \in Seq(Info) /\ node.infos[i] \in Info
  BY DEF IsNode
<1>2. r \in Info /\ r.ttl = FALSE /\ r.told = node.infos[i].told
  BY <1>1 DEF Info
<1> HIDE DEF r
<1>3. /\ infos \in Seq(Info) /\ Len(infos) = Len(node.infos)
      /\ infos[i] = r /\ \A j \in 1..Len(node.infos) : j # i => infos[j] = node.infos[j]
  BY <1>1, <1>2, InfoReplaced
<1>4. node.collected_offers_ \in {0, i}
  BY DEF IsNode
<1>5. CASE n = node /\ w = [Withdrawn(n, i) EXCEPT !.services_ = 0]
  <2>1. w = [[[[node EXCEPT !.infos = infos] EXCEPT !.collected_offers_ = IF @ = i THEN 0 ELSE @]
                 EXCEPT !.repetition_phase_timers_ = timers] EXCEPT !.services_ = 0]
    BY <1>5 DEF Withdrawn, infos, r
  <2> HIDE DEF infos, timers
  <2>2. w = [services_ |-> 0, infos |-> infos, collected_offers_ |-> 0,
             repetition_phase_timers_ |-> timers,
             offer_debounce_timer_ |-> node.offer_debounce_timer_, debounce |-> node.debounce, answer |-> node.answer,
             is_suspended_ |-> node.is_suspended_, sessions_sent_ |-> node.sessions_sent_, starts |-> node.starts]
    BY <1>4, <2>1 DEF IsNode
  <2>3. IsNode(w)
    BY <1>3, <2>2 DEF IsNode, timers
  <2> QED
    BY <1>2, <1>3, <2>2, <2>3 DEF IsWithdrawn, timers
<1>6. CASE n = discovery_stop(node) /\ w = Withdrawn(n, i)
  <2>1. w = [[[[[node EXCEPT !.is_suspended_ = TRUE] EXCEPT !.offer_debounce_timer_ = FALSE]
                 EXCEPT !.infos = infos] EXCEPT !.collected_offers_ = IF @ = i THEN 0 ELSE @]
                 EXCEPT !.repetition_phase_timers_ = timers]
    BY <1>6 DEF Withdrawn, discovery_stop, infos, r, IsNode
  <2> HIDE DEF infos, timers
  <2>2. w = [services_ |-> i, infos |-> infos, collected_offers_ |-> 0,
             repetition_phase_timers_ |-> timers,
             offer_debounce_timer_ |-> FALSE, debounce |-> node.debounce, answer |-> node.answer,
             is_suspended_ |-> TRUE, sessions_sent_ |-> node.sessions_sent_, starts |-> node.starts]
    BY <1>4, <2>1 DEF IsNode
  <2>3. IsNode(w)
    BY <1>1, <1>3, <2>2 DEF IsNode, timers
  <2> QED
    BY <1>2, <1>3, <2>2, <2>3 DEF IsWithdrawn, timers
<1> QED
  BY <1>5, <1>6

\* A withdrawal is announced if the peer can have been told, but in the ways history names.
LEMMA WithdrawalStep ==
    ASSUME OfferInv, node.services_ # 0, NEW w, IsWithdrawn(node, w, node.services_),
           w.services_ = 0 \/ w.is_suspended_, SendStopOffer(w, node.services_), peer' = peer,
           past' = [upsets |-> past'.upsets, history |-> past'.history],
           past'.history = {} => past.history = {} /\ ~Untold(node.services_)
    PROVE  OfferInv' /\ SessionStep
<1> DEFINE i == node.services_
<1>1. IsNode(node) /\ IsNet(net) /\ IsPeer(peer) /\ i \in 1..Len(node.infos) /\ i \in 1..Len(w.infos)
  BY DEF OfferInv, Shape, IsNode, IsWithdrawn
<1>2. \A j \in 1..Len(w.infos) : ~w.infos[j].ttl
  <2> TAKE j \in 1..Len(w.infos)
  <2>1. j \in 1..Len(node.infos)
    BY DEF IsWithdrawn
  <2>2. j # i => ~node.infos[j].ttl
    BY <2>1 DEF OfferInv, Phased
  <2> QED
    BY <2>1, <2>2 DEF IsWithdrawn
<1>3. Phased(w)
  BY <1>2 DEF Phased, OfferInv, IsWithdrawn
<1>4. ASSUME past'.history = {}, NEW j \in 1..Len(w.infos), j # i PROVE Due(w, j)
  <2>1. j \in 1..Len(node.infos) /\ Due(node, j) /\ ~node.infos[j].ttl /\ w.infos[j].told = node.infos[j].told
    BY <1>4 DEF OfferInv, AllDue, Phased, IsWithdrawn
  <2>2. (Timed(node, j) => Timed(w, j)) /\ (Debounced(node, j) => Debounced(w, j))
    BY <1>4 DEF Timed, Debounced, IsWithdrawn
  <2> QED
    BY <2>1, <2>2 DEF Due
<1>5. CASE stop_offer_required(node, i)
  <2>1. SendOffer(w, "multicast", i, FALSE)
    BY <1>5 DEF SendStopOffer
  <2> QED
    BY <1>1, <1>3, <1>4, <2>1, SendStep DEF IsWithdrawn, Channels
<1>6. CASE ~stop_offer_required(node, i)
  <2>1. node' = w /\ net' = net
    BY <1>6 DEF SendStopOffer
  <2>2. ASSUME past'.history = {} PROVE Due(w, i)
    <3>1. Due(node, i) /\ w.infos[i].told = node.infos[i].told
      BY <1>1, <2>2 DEF OfferInv, AllDue, IsWithdrawn
    <3>2. ~Timed(node, i) /\ ~node.infos[i].is_in_mainphase
      BY <1>6 DEF stop_offer_required
    <3>3. node.infos[i].told # {} => node.collected_offers_ # i
      BY <2>2 DEF Untold
    <3>4. node.infos[i].told # {} => Debounced(node, i)
      BY <1>1, <3>1, <3>2, <3>3 DEF OfferInv, Phased, Due
    <3>5. Debounced(node, i) => Debounced(w, i)
      BY DEF Debounced, IsWithdrawn
    <3> QED
      BY <3>1, <3>4, <3>5 DEF Due
  <2>3. past'.history = {} => AllDue(w)
    BY <1>4, <2>2 DEF AllDue
  <2>4. SomethingTold(node) => SomethingTold(w)
    BY DEF SomethingTold, IsWithdrawn
  <2>5. IsNode(w) /\ w.starts = node.starts /\ w.sessions_sent_ = node.sessions_sent_
    BY DEF IsWithdrawn
  <2> QED
    BY <1>1, <1>3, <2>1, <2>3, <2>4, <2>5, SilentStep DEF Same, Unheeded
<1> QED
  BY <1>5, <1>6

\* discovery_stop_offer_service and Suspend keep the invariant.
LEMMA WithdrawSteps ==
    ASSUME OfferInv, discovery_stop_offer_service \/ Suspend
    PROVE  OfferInv' /\ SessionStep
<1>1. IsNode(node) /\ past = [upsets |-> past.upsets, history |-> past.history]
  BY DEF OfferInv, Shape
<1>2. CASE discovery_stop_offer_service
  <2> DEFINE w == [Withdrawn(node, node.services_) EXCEPT !.services_ = 0]
  <2>1. node.services_ # 0 /\ SendStopOffer(w, node.services_) /\ peer' = peer
    BY <1>2 DEF discovery_stop_offer_service
  <2>2. /\ past' = [upsets |-> past'.upsets, history |-> past'.history]
        /\ past'.history = {} => past.history = {} /\ ~Untold(node.services_)
    BY <1>1, <1>2 DEF discovery_stop_offer_service, Noted
  <2> HIDE DEF w
  <2>3. IsWithdrawn(node, w, node.services_) /\ (w.services_ = 0 \/ w.is_suspended_)
    BY <1>1, <2>1, WithdrawnFields DEF w
  <2> QED
    BY <2>1, <2>2, <2>3, WithdrawalStep
<1>3. CASE Suspend /\ node.services_ # 0
  <2> DEFINE w == Withdrawn(discovery_stop(node), node.services_)
  <2>1. SendStopOffer(w, node.services_) /\ peer' = peer
    BY <1>3 DEF Suspend
  <2>2. /\ past' = [upsets |-> past'.upsets, history |-> past'.history]
        /\ past'.history = {} => past.history = {} /\ ~Untold(node.services_)
    BY <1>1, <1>3 DEF Suspend, Noted, Upset
  <2> HIDE DEF w
  <2>3. IsWithdrawn(node, w, node.services_) /\ (w.services_ = 0 \/ w.is_suspended_)
    BY <1>1, <1>3, WithdrawnFields DEF w
  <2> QED
    BY <1>3, <2>1, <2>2, <2>3, WithdrawalStep
<1>4. CASE Suspend /\ node.services_ = 0
  <2>1. /\ node' = [node EXCEPT !.is_suspended_ = TRUE, !.offer_debounce_timer_ = FALSE]
        /\ net' = net /\ peer' = peer /\ past' = [past EXCEPT !.upsets = @ + 1]
    BY <1>4 DEF Suspend, discovery_stop, Upset
  <2>2. node' = [services_ |-> 0, infos |-> node.infos, collected_offers_ |-> 0,
                 repetition_phase_timers_ |-> node.repetition_phase_timers_,
                 offer_debounce_timer_ |-> FALSE, debounce |-> node.debounce, answer |-> node.answer,
                 is_suspended_ |-> TRUE, sessions_sent_ |-> node.sessions_sent_, starts |-> node.starts]
    BY <1>1, <1>4, <2>1 DEF IsNode
  <2>3. IsNode(node')
    BY <1>1, <2>2 DEF IsNode
  <2>4. \A i \in 1..Len(node.infos) : ~node.infos[i].ttl
    BY <1>4 DEF OfferInv, Phased
  <2>5. Phased(node')
    BY <2>2, <2>4 DEF Phased, OfferInv
  <2>6. AllDue(node) => AllDue(node')
    BY <2>2 DEF AllDue, Due, Timed, Debounced
  <2>7. SomethingTold(node) => SomethingTold(node')
    BY <2>2 DEF SomethingTold
  <2>8. past' = [upsets |-> past'.upsets, history |-> past'.history] /\ past'.history = past.history
    BY <1>1, <2>1
  <2>9. IsNet(net) /\ IsPeer(peer) /\ (past.history = {} => AllDue(node))
    BY DEF OfferInv, Shape
  <2>10. Same
    BY <2>2 DEF Same
  <2> QED
    BY <2>1, <2>3, <2>5, <2>6, <2>7, <2>8, <2>9, <2>10, SilentStep DEF Unheeded
<1> QED
  BY <1>2, <1>3, <1>4

\* discovery_offer_service keeps it: the new info is collected.
LEMMA OfferStep ==
    ASSUME OfferInv, discovery_offer_service
    PROVE  OfferInv' /\ SessionStep
<1> DEFINE i == Len(node.infos) + 1
           r == [ttl |-> TRUE, is_in_mainphase |-> FALSE, told |-> {}]
           infos == Append(node.infos, r)
<1>1. IsNode(node) /\ IsNet(net) /\ IsPeer(peer) /\ past = [upsets |-> past.upsets, history |-> past.history]
  BY DEF OfferInv, Shape
<1>2. node.infos \in Seq(Info) /\ r \in Info
  BY <1>1 DEF IsNode, Info
<1>3. /\ infos \in Seq(Info) /\ Len(infos) = i /\ infos[i] = r /\ i \in Nat
      /\ \A j \in 1..Len(node.infos) : infos[j] = node.infos[j] /\ j # i
      /\ \A j \in 1..i : j # i => j \in 1..Len(node.infos)
  <2> HIDE DEF r
  <2> QED
    BY <1>2
<1>4. /\ node.services_ = 0 /\ net' = net /\ peer' = peer /\ past' = [past EXCEPT !.upsets = @ + 1]
      /\ node' = [[[node EXCEPT !.infos = infos] EXCEPT !.services_ = i]
                                EXCEPT !.collected_offers_ = IF @ = 0 THEN i ELSE @]
  BY <1>1 DEF discovery_offer_service, Upset, IsNode
<1> HIDE DEF infos
<1>5. node' = [services_ |-> i, infos |-> infos, collected_offers_ |-> i,
               repetition_phase_timers_ |-> node.repetition_phase_timers_,
               offer_debounce_timer_ |-> node.offer_debounce_timer_, debounce |-> node.debounce,
               answer |-> node.answer, is_suspended_ |-> node.is_suspended_,
               sessions_sent_ |-> node.sessions_sent_, starts |-> node.starts]
  BY <1>1, <1>4 DEF IsNode
<1>6. 0..Len(node.infos) \subseteq 0..i /\ 1..Len(node.infos) \subseteq 1..i /\ i \in 1..i /\ i \in 0..i /\ i # 0
  BY <1>2
<1>7. IsNode(node')
  BY <1>1, <1>3, <1>5, <1>6 DEF IsNode
<1>8. \A j \in 1..Len(node.infos) : ~node.infos[j].ttl
  BY <1>4 DEF OfferInv, Phased
<1>9. node.answer # NotBusy => node.answer.info # i
  BY <1>1, <1>2 DEF IsNode
<1>10. Phased(node')
  <2>1. \A j \in 1..i : infos[j].ttl => j = i
    BY <1>3, <1>8
  <2>2. infos[i].ttl /\ infos[i].told = {}
    BY <1>3
  <2> QED
    BY <1>3, <1>5, <1>9, <2>1, <2>2 DEF Phased, OfferInv
<1>11. AllDue(node) => AllDue(node')
  <2>1. infos[i].told = {}
    BY <1>3
  <2>2. ASSUME AllDue(node), NEW j \in 1..i PROVE Due(node', j)
    <3>1. CASE j = i
      BY <1>5, <2>1, <3>1 DEF Due
    <3>2. CASE j # i
      BY <1>3, <1>5, <2>2, <3>2 DEF AllDue, Due, Timed, Debounced
    <3> QED
      BY <3>1, <3>2
  <2>3. Len(node'.infos) = i
    BY <1>3, <1>5
  <2> QED
    BY <2>2, <2>3 DEF AllDue
<1>12. SomethingTold(node) => SomethingTold(node')
  BY <1>3, <1>5, <1>6 DEF SomethingTold
<1>13. past' = [upsets |-> past'.upsets, history |-> past'.history] /\ past'.history = past.history
  BY <1>1, <1>4
<1>14. Same
  BY <1>5 DEF Same
<1>15. past.history = {} => AllDue(node)
  BY DEF OfferInv
<1> QED
  BY <1>1, <1>4, <1>7, <1>10, <1>11, <1>12, <1>13, <1>14, <1>15, SilentStep DEF Unheeded

\* Resume and Reboot keep it, and start the sessions anew.
LEMMA RestartSteps ==
    ASSUME OfferInv, Resume \/ Reboot
    PROVE  OfferInv' /\ SessionStep
<1>1. IsNode(node) /\ IsNet(net) /\ IsPeer(peer) /\ past = [upsets |-> past.upsets, history |-> past.history]
  BY DEF OfferInv, Shape
<1>2. Node.sessions_sent_ \in [Channels -> Sessions] /\ node.starts + 1 \in Nat \ {0}
  BY <1>1 DEF Node, Sessions, IsNode
<1>3. CASE Reboot
  <2>1. /\ node' = [Node EXCEPT !.starts = node.starts + 1] /\ net' = net /\ peer' = peer
        /\ past' = [upsets |-> past'.upsets, history |-> past'.history] /\ past'.history # {}
    BY <1>1, <1>3 DEF Reboot, Noted, Upset
  <2>2. node' = [services_ |-> 0, infos |-> <<>>, collected_offers_ |-> 0, repetition_phase_timers_ |-> {},
                 offer_debounce_timer_ |-> TRUE, debounce |-> {}, answer |-> NotBusy, is_suspended_ |-> FALSE,
                 sessions_sent_ |-> Node.sessions_sent_, starts |-> node.starts + 1]
    BY <2>1 DEF Node
  <2>3. NotBusy \in [pc : {"idle", "made"}, info : 0..Len(<<>>), offered : BOOLEAN]
    BY DEF NotBusy
  <2>4. IsNode(node')
    BY <1>2, <2>2, <2>3 DEF IsNode
  <2>5. Phased(node')
    BY <2>2 DEF Phased
  <2>6. Restarts
    BY <2>1, <2>2 DEF Restarts, Unheeded
  <2> QED
    BY <1>1, <2>1, <2>4, <2>5, <2>6 DEF OfferInv, Shape, SessionStep
<1>4. CASE Resume
  <2> DEFINE i == node.services_
  <2>1. node.is_suspended_ /\ net' = net /\ peer' = peer /\ past' = past
    BY <1>4 DEF Resume
  <2>2. CASE i = 0
    <3>1. node' = [node EXCEPT !.is_suspended_ = FALSE, !.offer_debounce_timer_ = TRUE,
                               !.sessions_sent_ = Node.sessions_sent_, !.starts = @ + 1]
      BY <1>4, <2>2 DEF Resume, discovery_start
    <3>2. node' = [services_ |-> 0, infos |-> node.infos, collected_offers_ |-> 0,
                   repetition_phase_timers_ |-> node.repetition_phase_timers_,
                   offer_debounce_timer_ |-> TRUE, debounce |-> node.debounce, answer |-> node.answer,
                   is_suspended_ |-> FALSE, sessions_sent_ |-> Node.sessions_sent_, starts |-> node.starts + 1]
      BY <1>1, <2>2, <3>1 DEF IsNode
    <3>3. IsNode(node')
      BY <1>1, <1>2, <3>2 DEF IsNode
    <3>4. \A j \in 1..Len(node.infos) : ~node.infos[j].ttl
      BY <2>2 DEF OfferInv, Phased
    <3>5. Phased(node')
      BY <3>2, <3>4 DEF Phased, OfferInv
    <3>6. past.history = {} => AllDue(node') /\ Remembered(node', peer.known, net)
      BY <3>2 DEF OfferInv, AllDue, Due, Timed, Debounced, Remembered, SomethingTold
    <3>7. Restarts
      BY <2>1, <3>2 DEF Restarts, Unheeded
    <3> QED
      BY <1>1, <2>1, <3>3, <3>5, <3>6, <3>7 DEF OfferInv, Shape, SessionStep
  <2>3. CASE i # 0
    <3> DEFINE r == [node.infos[i] EXCEPT !.ttl = TRUE, !.is_in_mainphase = FALSE]
               infos == [node.infos EXCEPT ![i] = r]
    <3>1. i \in 1..Len(node.infos) /\ node.infos \in Seq(Info) /\ node.infos[i] \in Info
      BY <1>1, <2>3 DEF IsNode
    <3>2. r \in Info /\ r.ttl = TRUE /\ r.told = node.infos[i].told
      BY <3>1 DEF Info
    <3>3. node' = [[[[[[node EXCEPT !.is_suspended_ = FALSE] EXCEPT !.offer_debounce_timer_ = TRUE]
                       EXCEPT !.sessions_sent_ = Node.sessions_sent_] EXCEPT !.starts = node.starts + 1]
                       EXCEPT !.infos = infos] EXCEPT !.collected_offers_ = IF @ = 0 THEN i ELSE @]
      <4> DEFINE n == discovery_start(node)
                 once == [node.infos EXCEPT ![i].ttl = TRUE]
      <4>1. n = [[[[node EXCEPT !.is_suspended_ = FALSE] EXCEPT !.offer_debounce_timer_ = TRUE]
                    EXCEPT !.sessions_sent_ = Node.sessions_sent_] EXCEPT !.starts = node.starts + 1]
        BY <1>1 DEF discovery_start, IsNode
      <4>2. n.infos = node.infos
        BY <1>1, <4>1 DEF IsNode
      <4>3. node' = [n EXCEPT !.infos[i].ttl = TRUE, !.infos[i].is_in_mainphase = FALSE,
                              !.collected_offers_ = IF @ = 0 THEN i ELSE @]
        BY <1>4, <2>3 DEF Resume
      <4> HIDE DEF n
      <4>4. infos = [once EXCEPT ![i].is_in_mainphase = FALSE]
        BY <3>1
      <4>5. node' = [[n EXCEPT !.infos = [once EXCEPT ![i].is_in_mainphase = FALSE]]
                        EXCEPT !.collected_offers_ = IF @ = 0 THEN i ELSE @]
        <5>1. n = [services_ |-> n.services_, infos |-> n.infos, collected_offers_ |-> n.collected_offers_,
                   repetition_phase_timers_ |-> n.repetition_phase_timers_,
                   offer_debounce_timer_ |-> n.offer_debounce_timer_, debounce |-> n.debounce, answer |-> n.answer,
                   is_suspended_ |-> n.is_suspended_, sessions_sent_ |-> n.sessions_sent_, starts |-> n.starts]
          BY <1>1, <4>1 DEF IsNode
        <5> DEFINE x == [n EXCEPT !.infos[i].ttl = TRUE]
                   y == [x EXCEPT !.infos[i].is_in_mainphase = FALSE]
        <5>2. node' = [y EXCEPT !.collected_offers_ = IF @ = 0 THEN i ELSE @]
          BY <4>3
        <5>3. x = [n EXCEPT !.infos = once]
          BY <4>2
        <5>4. x.infos = once
          BY <5>1, <5>3
        <5> HIDE DEF x
        <5>5. y = [x EXCEPT !.infos = [once EXCEPT ![i].is_in_mainphase = FALSE]]
          BY <5>4
        <5> HIDE DEF y
        <5>6. y = [n EXCEPT !.infos = [once EXCEPT ![i].is_in_mainphase = FALSE]]
          BY <5>1, <5>3, <5>5
        <5> QED
          BY <5>2, <5>6
      <4> QED
        BY <4>1, <4>4, <4>5
    <3> HIDE DEF r
    <3>4. /\ infos \in Seq(Info) /\ Len(infos) = Len(node.infos)
          /\ infos[i] = r /\ \A j \in 1..Len(node.infos) : j # i => infos[j] = node.infos[j]
      BY <3>1, <3>2, InfoReplaced
    <3> HIDE DEF infos
    <3>5. node' = [services_ |-> i, infos |-> infos, collected_offers_ |-> i,
                   repetition_phase_timers_ |-> node.repetition_phase_timers_,
                   offer_debounce_timer_ |-> TRUE, debounce |-> node.debounce, answer |-> node.answer,
                   is_suspended_ |-> FALSE, sessions_sent_ |-> Node.sessions_sent_, starts |-> node.starts + 1]
      BY <1>1, <3>3 DEF IsNode
    <3>6. IsNode(node')
      BY <1>1, <1>2, <3>1, <3>4, <3>5 DEF IsNode
    <3>7. \A j \in 1..Len(node.infos) : j # i => ~node.infos[j].ttl
      BY DEF OfferInv, Phased
    <3>8. Phased(node')
      <4>1. \A j \in 1..Len(infos) : infos[j].ttl => j = i
        BY <3>4, <3>7
      <4>2. infos[i].ttl
        BY <3>2, <3>4
      <4> QED
        BY <3>5, <4>1, <4>2 DEF Phased, OfferInv
    <3>9. \A j \in 1..Len(node.infos) : infos[j].told = node.infos[j].told /\ (node.infos[j].ttl => infos[j].ttl)
      BY <3>2, <3>4
    <3>10. past.history = {} => AllDue(node') /\ Remembered(node', peer.known, net)
      BY <3>4, <3>5, <3>9 DEF OfferInv, AllDue, Due, Timed, Debounced, Remembered, SomethingTold
    <3>11. Restarts
      BY <2>1, <3>5 DEF Restarts, Unheeded
    <3> QED
      BY <1>1, <2>1, <3>6, <3>8, <3>10, <3>11 DEF OfferInv, Shape, SessionStep
  <2> QED
    BY <2>2, <2>3
<1> QED
  BY <1>3, <1>4

-----------------------------------------------------------------------------
(* From phase to phase                                                     *)

InPhase(n, i) == Timed(n, i) \/ Debounced(n, i)

\* The node n is node, but that info i has gone on to another phase.
Moved(n, i) ==
    /\ IsNode(n) /\ Len(n.infos) = Len(node.infos)
    /\ n.services_ = node.services_ /\ n.is_suspended_ = node.is_suspended_ /\ n.answer = node.answer
    /\ n.starts = node.starts /\ n.sessions_sent_ = node.sessions_sent_
    /\ \A j \in 1..Len(node.infos) :
          /\ n.infos[j].ttl = node.infos[j].ttl /\ n.infos[j].told = node.infos[j].told
          /\ node.infos[j].is_in_mainphase => n.infos[j].is_in_mainphase
          /\ j # i => (InPhase(node, j) => InPhase(n, j)) /\ (node.collected_offers_ = j => n.collected_offers_ = j)
    /\ InPhase(n, i) \/ n.infos[i].is_in_mainphase

\* A timer handler takes info i to another phase, and announces it or does not.
LEMMA PhaseStep ==
    ASSUME OfferInv, NEW n, NEW i \in 1..Len(node.infos), Moved(n, i), peer' = peer,
           past' = [upsets |-> past'.upsets, history |-> past'.history],
           past'.history = {} => past.history = {},
           \/ /\ node' = n /\ net' = net
              /\ past'.history = {} => InPhase(n, i) \/ node.infos[i].told = {} \/ node.infos[i].ttl
           \/ ~node.is_suspended_ /\ SendOffer(n, "multicast", i, node.infos[i].ttl)
    PROVE  OfferInv' /\ SessionStep
<1>1. IsNode(node) /\ IsNet(net) /\ IsPeer(peer) /\ IsNode(n) /\ i \in 1..Len(n.infos)
  BY DEF OfferInv, Shape, Moved
<1>2. \A j \in 1..Len(n.infos) : n.infos[j].ttl =>
          /\ j = n.services_
          /\ n.is_suspended_ => n.infos[j].told = {} /\ (n.answer # NotBusy => n.answer.info # j)
          /\ n.infos[j].is_in_mainphase \/ n.collected_offers_ = j \/ InPhase(n, j)
  <2> TAKE j \in 1..Len(n.infos)
  <2> HAVE n.infos[j].ttl
  <2>1. j \in 1..Len(node.infos) /\ node.infos[j].ttl /\ n.infos[j].told = node.infos[j].told
    BY DEF Moved
  <2>2. /\ j = node.services_
        /\ node.is_suspended_ => node.infos[j].told = {} /\ (node.answer # NotBusy => node.answer.info # j)
        /\ node.infos[j].is_in_mainphase \/ node.collected_offers_ = j \/ InPhase(node, j)
    BY <2>1 DEF OfferInv, Phased, InPhase
  <2>3. n.infos[j].is_in_mainphase \/ n.collected_offers_ = j \/ InPhase(n, j)
    BY <2>1, <2>2 DEF Moved
  <2> QED
    BY <2>1, <2>2, <2>3 DEF Moved
<1>3. node.services_ # 0 => node.services_ \in 1..Len(node.infos)
  BY <1>1 DEF IsNode
<1>4. Phased(n)
  BY <1>2, <1>3 DEF Phased, InPhase, OfferInv, Moved
<1>5. ASSUME past'.history = {}, NEW j \in 1..Len(n.infos), j # i PROVE Due(n, j)
  <2>1. j \in 1..Len(node.infos) /\ Due(node, j)
    BY <1>5 DEF OfferInv, AllDue, Moved
  <2>2. InPhase(node, j) => InPhase(n, j)
    BY <1>5, <2>1 DEF Moved
  <2> QED
    BY <2>1, <2>2 DEF Due, InPhase, Moved
<1>6. CASE /\ node' = n /\ net' = net
           /\ past'.history = {} => InPhase(n, i) \/ node.infos[i].told = {} \/ node.infos[i].ttl
  <2>1. past'.history = {} => Due(n, i)
    BY <1>6 DEF Due, InPhase, Moved
  <2>2. past'.history = {} => AllDue(n)
    BY <1>5, <2>1 DEF AllDue
  <2>3. SomethingTold(node) => SomethingTold(n)
    BY DEF SomethingTold, Moved
  <2>4. n.starts = node.starts /\ n.sessions_sent_ = node.sessions_sent_
    BY DEF Moved
  <2> QED
    BY <1>1, <1>4, <1>6, <2>2, <2>3, <2>4, SilentStep DEF Same, Unheeded
<1>7. CASE ~node.is_suspended_ /\ SendOffer(n, "multicast", i, node.infos[i].ttl)
  <2>1. node.infos[i].ttl \in BOOLEAN
    <3>1. node.infos[i] \in Info
      BY <1>1 DEF IsNode
    <3> QED
      BY <3>1 DEF Info
  <2>2. n.starts = node.starts /\ n.sessions_sent_ = node.sessions_sent_ /\ ~n.is_suspended_
        /\ n.infos[i].ttl = node.infos[i].ttl
    BY <1>7 DEF Moved
  <2> QED
    BY <1>1, <1>4, <1>5, <1>7, <2>1, <2>2, SendStep DEF Channels
<1> QED
  BY <1>6, <1>7

\* The handler of the debounce timer keeps the invariant.
LEMMA DebounceSteps ==
    ASSUME OfferInv, DebounceCopy \/ \E h \in node.debounce : DebounceSend(h) \/ DebounceDone(h)
    PROVE  OfferInv' /\ SessionStep
<1>1. IsNode(node) /\ past = [upsets |-> past.upsets, history |-> past.history]
  BY DEF OfferInv, Shape
<1>2. CASE DebounceCopy
  <2> DEFINE i == node.collected_offers_
             h == [id |-> FreeId(node.debounce), pc |-> "copied", info |-> i]
  <2>1. /\ i # 0 /\ peer' = peer /\ net' = net /\ past' = past
        /\ node' = [node EXCEPT !.offer_debounce_timer_ = FALSE, !.collected_offers_ = 0,
                                !.debounce = @ \cup {h}]
    BY <1>2 DEF DebounceCopy
  <2>2. IsHandler(h) /\ h.info = i /\ i \in 1..Len(node.infos)
    BY <1>1, <2>1 DEF IsHandler, IsNode
  <2> HIDE DEF h
  <2>3. node' = [services_ |-> node.services_, infos |-> node.infos, collected_offers_ |-> 0,
                 repetition_phase_timers_ |-> node.repetition_phase_timers_,
                 offer_debounce_timer_ |-> FALSE, debounce |-> node.debounce \cup {h}, answer |-> node.answer,
                 is_suspended_ |-> node.is_suspended_, sessions_sent_ |-> node.sessions_sent_, starts |-> node.starts]
    BY <1>1, <2>1 DEF IsNode
  <2>4. IsNode(node')
    BY <1>1, <2>2, <2>3 DEF IsNode
  <2>5. Moved(node', i) /\ InPhase(node', i)
    BY <2>2, <2>3, <2>4 DEF Moved, InPhase, Timed, Debounced
  <2> QED
    BY <1>1, <2>1, <2>2, <2>5, PhaseStep
<1>3. ASSUME NEW h \in node.debounce, DebounceSend(h) PROVE OfferInv' /\ SessionStep
  <2> DEFINE g == [h EXCEPT !.pc = "sent"]
             d == (node.debounce \ {h}) \cup {g}
             n == [node EXCEPT !.debounce = d]
  <2>1. /\ peer' = peer /\ past' = past
        /\ \/ node.is_suspended_ /\ node' = n /\ net' = net
           \/ ~node.is_suspended_ /\ SendOffer(n, "multicast", h.info, node.infos[h.info].ttl)
    BY <1>3 DEF DebounceSend, insert_offer_service
  <2>2. IsHandler(g) /\ g.info = h.info /\ h.info \in 1..Len(node.infos)
    BY <1>1 DEF IsHandler, IsNode
  <2> HIDE DEF g, d
  <2>3. n = [services_ |-> node.services_, infos |-> node.infos, collected_offers_ |-> node.collected_offers_,
             repetition_phase_timers_ |-> node.repetition_phase_timers_,
             offer_debounce_timer_ |-> node.offer_debounce_timer_,
             debounce |-> d, answer |-> node.answer,
             is_suspended_ |-> node.is_suspended_, sessions_sent_ |-> node.sessions_sent_, starts |-> node.starts]
    BY <1>1 DEF IsNode
  <2> HIDE DEF n
  <2>4. IsNode(n)
    BY <1>1, <2>2, <2>3 DEF IsNode, d
  <2>5. Moved(n, h.info) /\ InPhase(n, h.info)
    BY <2>2, <2>3, <2>4 DEF Moved, InPhase, Timed, Debounced, d
  <2> QED
    BY <1>1, <2>1, <2>2, <2>5, PhaseStep
<1>4. ASSUME NEW h \in node.debounce, DebounceDone(h) PROVE OfferInv' /\ SessionStep
  <2> DEFINE t == [id |-> FreeId(node.repetition_phase_timers_), info |-> h.info,
                   repetition |-> IF repetitions_max_ > 0 THEN 1 ELSE 0]
  <2>1. /\ peer' = peer /\ net' = net /\ past' = past
        /\ node' = [node EXCEPT !.debounce = @ \ {h}, !.offer_debounce_timer_ = TRUE,
                                !.repetition_phase_timers_ = @ \cup {t}]
    BY <1>4 DEF DebounceDone
  <2>2. IsTimer(t) /\ t.info = h.info /\ h.info \in 1..Len(node.infos)
    BY <1>1 DEF IsTimer, IsNode
  <2> HIDE DEF t
  <2>3. node' = [services_ |-> node.services_, infos |-> node.infos, collected_offers_ |-> node.collected_offers_,
                 repetition_phase_timers_ |-> node.repetition_phase_timers_ \cup {t},
                 offer_debounce_timer_ |-> TRUE, debounce |-> node.debounce \ {h}, answer |-> node.answer,
                 is_suspended_ |-> node.is_suspended_, sessions_sent_ |-> node.sessions_sent_, starts |-> node.starts]
    BY <1>1, <2>1 DEF IsNode
  <2>4. IsNode(node')
    BY <1>1, <2>2, <2>3 DEF IsNode
  <2>5. Moved(node', h.info) /\ InPhase(node', h.info)
    BY <2>2, <2>3, <2>4 DEF Moved, InPhase, Timed, Debounced
  <2> QED
    BY <1>1, <2>1, <2>2, <2>5, PhaseStep
<1> QED
  BY <1>2, <1>3, <1>4

\* The timer of a repetition phase, which moves the offer into the main phase in the end.
LEMMA RepetitionStep ==
    ASSUME OfferInv, NEW t \in node.repetition_phase_timers_, on_repetition_phase_timer_expired(t)
    PROVE  OfferInv' /\ SessionStep
<1> DEFINE i == t.info
           left == node.repetition_phase_timers_ \ {t}
           r == [node.infos[i] EXCEPT !.is_in_mainphase = TRUE]
           infos == [node.infos EXCEPT ![i] = r]
           moved == move_offers_into_main_phase(node, t)
           timers(u) == left \cup {u}
           Again(k) == [node EXCEPT !.repetition_phase_timers_ = timers([t EXCEPT !.repetition = k])]
<1>1. IsNode(node) /\ past = [upsets |-> past.upsets, history |-> past.history]
  BY DEF OfferInv, Shape
<1>2. i \in 1..Len(node.infos) /\ node.infos \in Seq(Info) /\ node.infos[i] \in Info /\ IsTimer(t)
  BY <1>1 DEF IsNode
<1>3. Moved(moved, i)
  <2>1. r \in Info /\ r.ttl = node.infos[i].ttl /\ r.told = node.infos[i].told /\ r.is_in_mainphase
    BY <1>2 DEF Info
  <2>2. moved = [[node EXCEPT !.infos = infos] EXCEPT !.repetition_phase_timers_ = left]
    BY <1>1 DEF move_offers_into_main_phase, IsNode
  <2> HIDE DEF r, moved
  <2>3. /\ infos \in Seq(Info) /\ Len(infos) = Len(node.infos)
        /\ infos[i] = r /\ \A j \in 1..Len(node.infos) : j # i => infos[j] = node.infos[j]
    BY <1>2, <2>1, InfoReplaced
  <2> HIDE DEF infos, left
  <2>4. moved = [services_ |-> node.services_, infos |-> infos, collected_offers_ |-> node.collected_offers_,
                 repetition_phase_timers_ |-> left,
                 offer_debounce_timer_ |-> node.offer_debounce_timer_, debounce |-> node.debounce,
                 answer |-> node.answer, is_suspended_ |-> node.is_suspended_,
                 sessions_sent_ |-> node.sessions_sent_, starts |-> node.starts]
    BY <1>1, <2>2 DEF IsNode
  <2>5. IsNode(moved)
    BY <1>1, <2>3, <2>4 DEF IsNode, left
  <2>6. \A j \in 1..Len(node.infos) : j # i /\ InPhase(node, j) => InPhase(moved, j)
    BY <2>4 DEF InPhase, Timed, Debounced, left
  <2>7. \A j \in 1..Len(node.infos) : /\ infos[j].ttl = node.infos[j].ttl /\ infos[j].told = node.infos[j].told
                                       /\ node.infos[j].is_in_mainphase => infos[j].is_in_mainphase
    BY <2>1, <2>3
  <2> QED
    BY <2>1, <2>3, <2>4, <2>5, <2>6, <2>7 DEF Moved
<1>4. ASSUME NEW k \in Nat PROVE Moved(Again(k), i) /\ InPhase(Again(k), i)
  <2> DEFINE s == [t EXCEPT !.repetition = k]
             n == Again(k)
  <2>1. IsTimer(s) /\ s.info = i
    BY <1>2 DEF IsTimer
  <2>2. n = [node EXCEPT !.repetition_phase_timers_ = timers(s)]
    BY DEF s
  <2> HIDE DEF s, n
  <2>7. \A x : x \in timers(s) <=> (x = s \/ (x \in node.repetition_phase_timers_ /\ x # t))
    OBVIOUS
  <2> HIDE DEF timers
  <2>3. n = [services_ |-> node.services_, infos |-> node.infos, collected_offers_ |-> node.collected_offers_,
             repetition_phase_timers_ |-> timers(s),
             offer_debounce_timer_ |-> node.offer_debounce_timer_, debounce |-> node.debounce,
             answer |-> node.answer, is_suspended_ |-> node.is_suspended_,
             sessions_sent_ |-> node.sessions_sent_, starts |-> node.starts]
    BY <1>1, <2>2 DEF IsNode
  <2>4. IsNode(n)
    BY <1>1, <1>2, <2>1, <2>3, <2>7 DEF IsNode
  <2>5. InPhase(n, i) /\ \A j \in 1..Len(node.infos) : j # i /\ InPhase(node, j) => InPhase(n, j)
    <3>1. n.repetition_phase_timers_ = timers(s) /\ n.debounce = node.debounce
      BY <2>3
    <3>2. Timed(n, i)
      BY <2>1, <2>7, <3>1 DEF Timed
    <3>3. \A j \in 1..Len(node.infos) : j # i /\ Timed(node, j) => Timed(n, j)
      BY <2>7, <3>1 DEF Timed
    <3>4. \A j \in 1..Len(node.infos) : Debounced(node, j) => Debounced(n, j)
      BY <3>1 DEF Debounced
    <3> QED
      BY <3>2, <3>3, <3>4 DEF InPhase
  <2>6. Moved(n, i)
    BY <2>3, <2>4, <2>5 DEF Moved
  <2> QED
    BY <2>5, <2>6 DEF n
<1>5. t.repetition \in Nat /\ t.repetition + 1 \in Nat /\ 0 \in Nat
  BY <1>2 DEF IsTimer
<1>6. /\ peer' = peer /\ past' = [upsets |-> past'.upsets, history |-> past'.history]
      /\ past'.history = {} =>
            /\ past.history = {}
            /\ node.is_suspended_ \/ t.repetition = 0 => node.infos[i].told = {} \/ node.infos[i].ttl
  BY <1>1 DEF on_repetition_phase_timer_expired, Noted, insert_offer_service
<1>7. PICK n : /\ Moved(n, i)
               /\ \/ node' = n /\ net' = net /\ (node.is_suspended_ \/ t.repetition = 0)
                  \/ ~node.is_suspended_ /\ SendOffer(n, "multicast", i, node.infos[i].ttl)
  <2>1. CASE t.repetition = 0
    <3>1. node' = moved /\ net' = net
      BY <1>5, <2>1 DEF on_repetition_phase_timer_expired
    <3> QED
      BY <1>3, <2>1, <3>1
  <2>2. CASE t.repetition # 0
    <3> DEFINE Taken(n) == IF node.is_suspended_ THEN node' = n /\ net' = net
                           ELSE SendOffer(n, "multicast", i, node.infos[i].ttl)
    <3>1. Taken(Again(t.repetition + 1)) \/ Taken(moved) \/ Taken(Again(0))
      BY <2>2 DEF on_repetition_phase_timer_expired, insert_offer_service
    <3> HIDE DEF Again, moved
    <3> QED
      BY <1>3, <1>4, <1>5, <3>1
  <2> QED
    BY <2>1, <2>2
<1>8. CASE node' = n /\ net' = net /\ (node.is_suspended_ \/ t.repetition = 0)
  BY <1>2, <1>6, <1>7, <1>8, PhaseStep
<1>9. CASE ~node.is_suspended_ /\ SendOffer(n, "multicast", i, node.infos[i].ttl)
  BY <1>2, <1>6, <1>7, <1>9, PhaseStep
<1> QED
  BY <1>7, <1>8, <1>9

\* The cyclic offers.
LEMMA MainStep ==
    ASSUME OfferInv, on_main_phase_timer_expired
    PROVE  OfferInv' /\ SessionStep
<1>1. IsNode(node) /\ past = [upsets |-> past.upsets, history |-> past.history]
  BY DEF OfferInv, Shape
<1>2. /\ node.services_ # 0 /\ ~node.is_suspended_ /\ node.infos[node.services_].is_in_mainphase
      /\ peer' = peer /\ past' = past
      /\ SendOffer(node, "multicast", node.services_, node.infos[node.services_].ttl)
  BY DEF on_main_phase_timer_expired, insert_offer_service
<1>3. node.services_ \in 1..Len(node.infos)
  BY <1>1, <1>2 DEF IsNode
<1>4. Moved(node, node.services_)
  BY <1>1, <1>2 DEF Moved
<1> QED
  BY <1>1, <1>2, <1>3, <1>4, PhaseStep

\* A FindService is answered.
LEMMA AnswerSteps ==
    ASSUME OfferInv, process_findservice_serviceentry \/ AnswerSend
    PROVE  OfferInv' /\ SessionStep
<1>1. IsNode(node) /\ IsNet(net) /\ IsPeer(peer) /\ past = [upsets |-> past.upsets, history |-> past.history]
  BY DEF OfferInv, Shape
<1>2. CASE process_findservice_serviceentry
  <2> DEFINE i == node.services_
             a == [pc |-> "made", info |-> i, offered |-> node.infos[i].ttl]
  <2>1. peer' = peer /\ past' = past /\ net' = [net EXCEPT !["find"] = @ - 1]
    BY <1>2 DEF process_findservice_serviceentry
  <2>2. IsNet(net') /\ \A c \in Channels : net'[c] = net[c]
    BY <1>1, <2>1 DEF IsNet, Channels
  <2>3. CASE node.is_suspended_ \/ i = 0
    <3>1. node' = node
      BY <1>2, <2>3 DEF process_findservice_serviceentry
    <3> QED
      BY <1>1, <2>1, <2>2, <3>1, SilentStep DEF OfferInv, Same, Unheeded
  <2>4. CASE ~node.is_suspended_ /\ i # 0
    <3>1. node' = [node EXCEPT !.answer = a]
      BY <1>2, <2>4 DEF process_findservice_serviceentry, insert_offer_service
    <3>2. i \in 1..Len(node.infos) /\ node.infos[i].ttl = TRUE
      <4>1. i \in 1..Len(node.infos) /\ node.infos[i] \in Info /\ node.infos[i].ttl
        BY <1>1, <2>4 DEF IsNode, OfferInv, Phased
      <4> QED
        BY <4>1 DEF Info
    <3>3. a.info = i /\ a.offered = TRUE /\ a \in [pc : {"idle", "made"}, info : 0..Len(node.infos), offered : BOOLEAN]
      BY <1>1, <3>2 DEF IsNode
    <3> HIDE DEF a
    <3>4. node' = [services_ |-> node.services_, infos |-> node.infos, collected_offers_ |-> node.collected_offers_,
                   repetition_phase_timers_ |-> node.repetition_phase_timers_,
                   offer_debounce_timer_ |-> node.offer_debounce_timer_, debounce |-> node.debounce,
                   answer |-> a, is_suspended_ |-> node.is_suspended_,
                   sessions_sent_ |-> node.sessions_sent_, starts |-> node.starts]
      BY <1>1, <3>1 DEF IsNode
    <3>5. IsNode(node')
      BY <1>1, <2>4, <3>3, <3>4 DEF IsNode
    <3>6. Phased(node')
      BY <2>4, <3>3, <3>4 DEF OfferInv, Phased, Timed, Debounced
    <3>7. past.history = {} => AllDue(node')
      BY <3>4 DEF OfferInv, AllDue, Due, Timed, Debounced
    <3>8. SomethingTold(node) => SomethingTold(node')
      BY <3>4 DEF SomethingTold
    <3>9. Same
      BY <3>4 DEF Same
    <3> QED
      BY <1>1, <2>1, <2>2, <3>5, <3>6, <3>7, <3>8, <3>9, SilentStep DEF Unheeded
  <2> QED
    BY <2>3, <2>4
<1>3. CASE AnswerSend
  <2> DEFINE i == node.answer.info
             n == [node EXCEPT !.answer = NotBusy]
  <2>1. node.answer # NotBusy /\ node.answer.offered = TRUE /\ i \in 1..Len(node.infos)
    BY <1>1, <1>3 DEF AnswerSend, OfferInv, Phased, IsNode
  <2>2. PICK c \in Channels : SendOffer(n, c, i, TRUE)
    BY <1>3, <2>1 DEF AnswerSend, send_uni_or_multicast_offerservice, Channels
  <2>3. /\ peer' = peer /\ past' = [upsets |-> past'.upsets, history |-> past'.history]
        /\ past'.history = {} => past.history = {} /\ node.infos[i].ttl
    BY <1>1, <1>3, <2>1 DEF AnswerSend, Noted
  <2>4. n = [services_ |-> node.services_, infos |-> node.infos, collected_offers_ |-> node.collected_offers_,
             repetition_phase_timers_ |-> node.repetition_phase_timers_,
             offer_debounce_timer_ |-> node.offer_debounce_timer_, debounce |-> node.debounce,
             answer |-> NotBusy, is_suspended_ |-> node.is_suspended_,
             sessions_sent_ |-> node.sessions_sent_, starts |-> node.starts]
    <3>1. node = [services_ |-> node.services_, infos |-> node.infos, collected_offers_ |-> node.collected_offers_,
                  repetition_phase_timers_ |-> node.repetition_phase_timers_,
                  offer_debounce_timer_ |-> node.offer_debounce_timer_, debounce |-> node.debounce,
                  answer |-> node.answer, is_suspended_ |-> node.is_suspended_,
                  sessions_sent_ |-> node.sessions_sent_, starts |-> node.starts]
      BY <1>1 DEF IsNode
    <3> QED
      BY <3>1
  <2> HIDE DEF n
  <2>5. NotBusy \in [pc : {"idle", "made"}, info : 0..Len(node.infos), offered : BOOLEAN]
    BY <1>1 DEF NotBusy, IsNode
  <2>6. IsNode(n)
    BY <1>1, <2>4, <2>5 DEF IsNode
  <2>7. Phased(n)
    BY <2>4 DEF OfferInv, Phased, Timed, Debounced
  <2>8. ~(n.is_suspended_ /\ n.infos[i].ttl)
    BY <2>1, <2>4 DEF OfferInv, Phased
  <2>9. past'.history = {} => (\A j \in 1..Len(n.infos) : j # i => Due(n, j)) /\ n.infos[i].ttl
    BY <2>3, <2>4 DEF OfferInv, AllDue, Due, Timed, Debounced
  <2>10. n.starts = node.starts /\ n.sessions_sent_ = node.sessions_sent_ /\ i \in 1..Len(n.infos)
    BY <2>1, <2>4
  <2> QED
    BY <2>2, <2>3, <2>6, <2>7, <2>8, <2>9, <2>10, SendStep
<1> QED
  BY <1>2, <1>3

-----------------------------------------------------------------------------
(* The peer and the network                                                *)

\* Requesting the service, searching for it, and the end of its TTL.
LEMMA PeerSteps ==
    ASSUME OfferInv,
           \/ discovery_request_service \/ check_ttl \/ LoseFind \/ UNCHANGED sdVars
           \/ on_find_debounce_timer_expired \/ on_find_repetition_phase_timer_expired
    PROVE  OfferInv' /\ SessionStep
<1>1. IsNode(node) /\ IsNet(net) /\ IsPeer(peer) /\ past = [upsets |-> past.upsets, history |-> past.history]
  BY DEF OfferInv, Shape
<1>2. node' = node
  BY DEF discovery_request_service, check_ttl, LoseFind, sdVars, on_find_debounce_timer_expired,
         on_find_repetition_phase_timer_expired
<1>3. past' = [upsets |-> past'.upsets, history |-> past'.history] /\ past'.history = past.history
  BY <1>1 DEF discovery_request_service, check_ttl, LoseFind, sdVars, on_find_debounce_timer_expired,
              on_find_repetition_phase_timer_expired, Upset
<1>4. net' = net \/ \E x : net' = [net EXCEPT !["find"] = x]
  BY DEF discovery_request_service, check_ttl, LoseFind, sdVars, on_find_debounce_timer_expired,
         on_find_repetition_phase_timer_expired, InsertFind
<1>5. IsNet(net') /\ \A c \in Channels : net'[c] = net[c]
  <2>1. CASE net' = net
    BY <1>1, <2>1
  <2>2. ASSUME NEW x, net' = [net EXCEPT !["find"] = x] PROVE IsNet(net') /\ \A c \in Channels : net'[c] = net[c]
    BY <1>1, <2>2 DEF IsNet, Channels
  <2> QED
    BY <1>4, <2>1, <2>2
<1>6. IsPeer(peer') /\ Unheeded /\ (peer'.known => peer.known)
  <2>1. CASE discovery_request_service
    BY <1>1, <2>1 DEF discovery_request_service, IsPeer, Unheeded
  <2>2. CASE check_ttl
    BY <1>1, <2>2 DEF check_ttl, update_routing_info, del_routing_info, IsPeer, Unheeded
  <2>3. CASE on_find_debounce_timer_expired
    BY <1>1, <2>3 DEF on_find_debounce_timer_expired, InsertFind, IsPeer, Unheeded
  <2>4. CASE on_find_repetition_phase_timer_expired
    BY <1>1, <2>4 DEF on_find_repetition_phase_timer_expired, InsertFind, IsPeer, Unheeded
  <2>5. CASE LoseFind \/ UNCHANGED sdVars
    BY <1>1, <2>5 DEF LoseFind, sdVars, Unheeded
  <2> QED
    BY <2>1, <2>2, <2>3, <2>4, <2>5
<1> QED
  BY <1>1, <1>2, <1>3, <1>5, <1>6, SilentStep DEF OfferInv, Same

\* The first message of a channel is taken from it.
LEMMA Taken ==
    ASSUME NEW q \in Seq(Message), q # <<>>
    PROVE  /\ Head(q) = q[1] /\ Head(q) \in Message /\ Tail(q) \in Seq(Message)
           /\ Len(q) \in Nat \ {0} /\ Len(Tail(q)) = Len(q) - 1
           /\ \A k \in 1..Len(Tail(q)) : k + 1 \in 1..Len(q) /\ Tail(q)[k] = q[k + 1]
<1>1. Len(q) \in Nat \ {0}
  OBVIOUS
<1>2. Head(q) = q[1] /\ q[1] \in Message /\ Tail(q) \in Seq(Message) /\ Len(Tail(q)) = Len(q) - 1
  BY <1>1
<1>3. \A k \in 1..Len(Tail(q)) : k + 1 \in 1..Len(q) /\ Tail(q)[k] = q[k + 1]
  BY <1>1, <1>2
<1> QED
  BY <1>1, <1>2, <1>3

\* A StopOffer that was behind a message is behind it without the first one, too.
LEMMA StopBehindTaken ==
    ASSUME NEW q \in Seq(Message), q # <<>>
    PROVE  /\ \A j \in 1..Len(q) : StopBehind(q, j) => StopBehind(Tail(q), j - 1)
           /\ Head(q).offered /\ StopBehind(q, 0) => StopBehind(Tail(q), 0)
<1>1. /\ Head(q) = q[1] /\ Len(q) \in Nat \ {0} /\ Len(Tail(q)) = Len(q) - 1
      /\ \A k \in 1..Len(Tail(q)) : Tail(q)[k] = q[k + 1]
  BY Taken
<1>2. ASSUME NEW j \in 0..Len(q), NEW k \in 1..Len(q), k > j, k # 1, ~q[k].offered PROVE StopBehind(Tail(q), j - 1)
  <2>1. k - 1 \in 1..Len(Tail(q)) /\ k - 1 > j - 1 /\ (k - 1) + 1 = k
    BY <1>1, <1>2
  <2>2. Tail(q)[k - 1] = q[k]
    BY <1>1, <2>1
  <2> QED
    BY <1>2, <2>1, <2>2 DEF StopBehind
<1>3. \A j \in 1..Len(q) : StopBehind(q, j) => StopBehind(Tail(q), j - 1)
  BY <1>1, <1>2 DEF StopBehind
<1>4. ASSUME Head(q).offered, NEW k \in 1..Len(q), k > 0, ~q[k].offered PROVE StopBehind(Tail(q), 0)
  <2>1. k # 1
    BY <1>1, <1>4
  <2>2. k - 1 \in 1..Len(Tail(q)) /\ k - 1 > 0 /\ (k - 1) + 1 = k
    BY <1>1, <2>1
  <2>3. Tail(q)[k - 1] = q[k]
    BY <1>1, <2>2
  <2> QED
    BY <1>4, <2>2, <2>3 DEF StopBehind
<1>5. Head(q).offered /\ StopBehind(q, 0) => StopBehind(Tail(q), 0)
  BY <1>4 DEF StopBehind
<1> QED
  BY <1>3, <1>5

\* A message leaves its channel: what the peer knows is remembered if that message
\* tells it, or if it was an Offer that was lost.
LEMMA TakenRemembered ==
    ASSUME IsNet(net), IsNet(net'), NEW c \in Channels, net[c] # <<>>, Channelled(c, Tail(net[c])),
           Remembered(node, peer.known, net), NEW known,
           \/ (known => peer.known) /\ Head(net[c]).offered
           \/ known /\ Head(net[c]).offered
           \/ ~known /\ ~Head(net[c]).offered /\ ~Answered(net)
    PROVE  Remembered(node, known, net')
<1> DEFINE q == net["multicast"]
           u == net["unicast"]
<1>1. q \in Seq(Message) /\ u \in Seq(Message)
  BY DEF IsNet, Channels
<1>2. CASE c = "multicast"
  <2>1. q # <<>> /\ net'["multicast"] = Tail(q) /\ net'["unicast"] = u
    BY <1>2 DEF Channelled, Channels
  <2>2. /\ Head(q) = q[1] /\ Len(q) \in Nat \ {0} /\ Len(Tail(q)) = Len(q) - 1
        /\ \A k \in 1..Len(Tail(q)) : k + 1 \in 1..Len(q) /\ Tail(q)[k] = q[k + 1]
    BY <1>1, <2>1, Taken
  <2>3. /\ \A j \in 1..Len(q) : StopBehind(q, j) => StopBehind(Tail(q), j - 1)
        /\ Head(q).offered /\ StopBehind(q, 0) => StopBehind(Tail(q), 0)
    BY <1>1, <2>1, StopBehindTaken
  <2>4. ASSUME NEW j \in 1..Len(Tail(q)), Tail(q)[j].offered PROVE StopBehind(Tail(q), j) \/ SomethingTold(node)
    <3>1. j + 1 \in 1..Len(q) /\ q[j + 1].offered /\ (j + 1) - 1 = j
      BY <2>2, <2>4
    <3>2. StopBehind(q, j + 1) \/ SomethingTold(node)
      BY <3>1 DEF Remembered
    <3> QED
      BY <2>3, <3>1, <3>2
  <2>5. known \/ Answered(net) => StopBehind(Tail(q), 0) \/ SomethingTold(node)
    <3>1. CASE Head(q).offered /\ (peer.known \/ Answered(net))
      BY <2>3, <3>1 DEF Remembered
    <3>2. CASE Head(q).offered /\ known
      <4>1. 1 \in 1..Len(q) /\ q[1].offered
        BY <2>2, <3>2
      <4>2. StopBehind(q, 1) \/ SomethingTold(node)
        BY <4>1 DEF Remembered
      <4>3. 1 - 1 = 0
        OBVIOUS
      <4>4. StopBehind(q, 1) => StopBehind(Tail(q), 0)
        BY <2>3, <4>1, <4>3
      <4> QED
        BY <4>2, <4>4
    <3> QED
      BY <1>2, <3>1, <3>2
  <2>6. Answered(net') => Answered(net)
    BY <2>1 DEF Answered
  <2> QED
    BY <2>1, <2>4, <2>5, <2>6 DEF Remembered
<1>3. CASE c = "unicast"
  <2>1. u # <<>> /\ net'["multicast"] = q /\ net'["unicast"] = Tail(u)
    BY <1>3 DEF Channelled, Channels
  <2>2. /\ Head(u) = u[1] /\ Len(u) \in Nat \ {0}
        /\ \A k \in 1..Len(Tail(u)) : k + 1 \in 1..Len(u) /\ Tail(u)[k] = u[k + 1]
    BY <1>1, <2>1, Taken
  <2>3. Answered(net') => Answered(net)
    BY <2>1, <2>2 DEF Answered
  <2>4. Head(u).offered => Answered(net)
    BY <2>2 DEF Answered
  <2>5. known \/ Answered(net') => peer.known \/ Answered(net)
    BY <1>3, <2>3, <2>4
  <2> QED
    BY <2>1, <2>5 DEF Remembered
<1> QED
  BY <1>2, <1>3 DEF Channels

\* So it leaves the channel.
LEMMA NetTaken ==
    ASSUME IsNet(net), NEW c \in Channels, net[c] # <<>>, net' = [net EXCEPT ![c] = Tail(net[c])]
    PROVE  IsNet(net') /\ Channelled(c, Tail(net[c]))
<1> DEFINE q == Tail(net[c])
<1>1. net[c] \in Seq(Message)
  BY DEF IsNet
<1>2. q \in Seq(Message)
  BY <1>1, Taken
<1> HIDE DEF q
<1>3. net' = [net EXCEPT ![c] = q]
  BY DEF q
<1>4. IsNet(net') /\ Channelled(c, q)
  BY <1>2, <1>3 DEF IsNet, Channelled
<1> QED
  BY <1>4 DEF q

\* A message is lost.
LEMMA LoseStep ==
    ASSUME OfferInv, NEW c \in Channels, Lose(c)
    PROVE  OfferInv' /\ SessionStep
<1>1. IsNode(node) /\ IsNet(net) /\ IsPeer(peer) /\ past = [upsets |-> past.upsets, history |-> past.history]
  BY DEF OfferInv, Shape
<1>2. net[c] # <<>> /\ node' = node /\ peer' = peer /\ net' = [net EXCEPT ![c] = Tail(net[c])]
  BY DEF Lose
<1>3. /\ past' = [upsets |-> past'.upsets, history |-> past'.history]
      /\ past'.history = {} => past.history = {} /\ Head(net[c]).offered
  BY <1>1 DEF Lose, Noted, Upset
<1>4. net[c] \in Seq(Message) /\ Tail(net[c]) \in Seq(Message)
  BY <1>1, <1>2, Taken DEF IsNet
<1>5. IsNet(net') /\ Channelled(c, Tail(net[c]))
  BY <1>1, <1>2, NetTaken
<1>6. past'.history = {} => AllDue(node') /\ Remembered(node', peer'.known, net')
  BY <1>1, <1>2, <1>3, <1>5, TakenRemembered DEF OfferInv
<1>7. Loses(c)
  BY <1>2, <1>5 DEF Loses, Same, Unheeded
<1>8. Phased(node')
  BY <1>2 DEF OfferInv
<1> QED
  BY <1>1, <1>2, <1>3, <1>5, <1>6, <1>7, <1>8 DEF OfferInv, Shape, SessionStep

\* What is recorded of a message.
LEMMA RecordedType ==
    ASSUME IsPeer(peer), NEW c \in Channels, NEW m \in Message
    PROVE  Recorded(peer.sessions_received_, c, m)
              \in [heard : BOOLEAN, session : [Channels -> Nat], flag : [Channels -> BOOLEAN], starts : [Channels -> Nat]]
<1> DEFINE r == peer.sessions_received_
<1>1. CASE is_reboot(r, c, m)
  BY <1>1 DEF Recorded, Unheard
<1>2. CASE ~is_reboot(r, c, m)
  BY <1>2 DEF Recorded, IsPeer, Message
<1> QED
  BY <1>1, <1>2

\* The peer receives a message.
LEMMA ArriveStep ==
    ASSUME OfferInv, NEW c \in Channels, discovery_on_message(c)
    PROVE  OfferInv' /\ SessionStep
<1> DEFINE m == Head(net[c])
           r == peer.sessions_received_
           v == Verdict(r, c, m)
           rec == Recorded(r, c, m)
           p == [[peer EXCEPT !.sessions_received_ = rec] EXCEPT !.verdict = v]
           x == IF is_reboot(r, c, m) THEN expire_services(p) ELSE p
<1>1. IsNode(node) /\ IsNet(net) /\ IsPeer(peer) /\ past = [upsets |-> past.upsets, history |-> past.history]
  BY DEF OfferInv, Shape
<1>2. net[c] # <<>> /\ node' = node /\ net' = [net EXCEPT ![c] = Tail(net[c])] /\ peer' = process_serviceentry(x, m)
  BY <1>1 DEF discovery_on_message, IsPeer
<1>3. net[c] \in Seq(Message) /\ Tail(net[c]) \in Seq(Message) /\ m \in Message
  BY <1>1, <1>2, Taken DEF IsNet
<1>4. rec \in [heard : BOOLEAN, session : [Channels -> Nat], flag : [Channels -> BOOLEAN], starts : [Channels -> Nat]]
  BY <1>1, <1>3, RecordedType
<1>5. /\ past' = [upsets |-> past'.upsets, history |-> past'.history]
      /\ past'.history = {} => past.history = {} /\ (m.offered \/ ~Answered(net))
  <2>1. DOMAIN net["unicast"] = 1..Len(net["unicast"])
    BY <1>1 DEF IsNet, Channels
  <2> HIDE DEF m
  <2>2. past' = Noted(past, "crossed", ~m.offered /\ Answered(net))
    BY <2>1 DEF discovery_on_message, Answered, m
  <2> QED
    BY <1>1, <2>2 DEF Noted
<1> HIDE DEF m, v, rec
<1>14. p = [[peer EXCEPT !.sessions_received_ = rec] EXCEPT !.verdict = v]
  OBVIOUS
<1> HIDE DEF p
<1>6. p = [sessions_received_ |-> rec, known |-> peer.known, ttl |-> peer.ttl, requested_ |-> peer.requested_,
           sent_counter_ |-> peer.sent_counter_, find_timer |-> peer.find_timer, endpoint |-> peer.endpoint,
           verdict |-> v]
  <2>1. peer = [sessions_received_ |-> r, known |-> peer.known, ttl |-> peer.ttl, requested_ |-> peer.requested_,
                sent_counter_ |-> peer.sent_counter_, find_timer |-> peer.find_timer, endpoint |-> peer.endpoint,
                verdict |-> peer.verdict]
    BY <1>1 DEF IsPeer
  <2> QED
    BY <1>14, <2>1
<1>7. /\ x = [sessions_received_ |-> rec, known |-> x.known, ttl |-> x.ttl, requested_ |-> x.requested_,
              sent_counter_ |-> x.sent_counter_, find_timer |-> x.find_timer, endpoint |-> x.endpoint, verdict |-> v]
  BY <1>6 DEF expire_services, del_routing_info
<1> HIDE DEF x
<1>8. /\ peer' = [sessions_received_ |-> rec, known |-> m.offered, ttl |-> peer'.ttl, requested_ |-> peer'.requested_,
                  sent_counter_ |-> peer'.sent_counter_, find_timer |-> peer'.find_timer,
                  endpoint |-> peer'.endpoint, verdict |-> v]
  <2> DEFINE y == update_request(x)
  <2>1. /\ y = [sessions_received_ |-> y.sessions_received_, known |-> y.known, ttl |-> y.ttl,
                requested_ |-> y.requested_, sent_counter_ |-> y.sent_counter_, find_timer |-> y.find_timer,
                endpoint |-> y.endpoint, verdict |-> y.verdict]
        /\ y.sessions_received_ = rec /\ y.verdict = v
    BY <1>7 DEF update_request
  <2> HIDE DEF y
  <2>2. peer' = IF m.offered THEN add_routing_info(y) ELSE del_routing_info(y)
    BY <1>2 DEF process_serviceentry, process_offerservice_serviceentry, y
  <2>3. CASE m.offered = TRUE
    <3>1. peer' = [y EXCEPT !.known = TRUE, !.ttl = Ttl, !.endpoint = y.requested_]
      BY <2>2, <2>3 DEF add_routing_info
    <3>2. peer' = [sessions_received_ |-> rec, known |-> TRUE, ttl |-> Ttl, requested_ |-> y.requested_,
                   sent_counter_ |-> y.sent_counter_, find_timer |-> y.find_timer, endpoint |-> y.requested_,
                   verdict |-> v]
      BY <2>1, <3>1
    <3> QED
      BY <2>3, <3>2
  <2>4. CASE m.offered = FALSE
    <3>1. peer' = [y EXCEPT !.known = FALSE, !.ttl = 0, !.endpoint = FALSE]
      BY <2>2, <2>4 DEF del_routing_info
    <3>2. peer' = [sessions_received_ |-> rec, known |-> FALSE, ttl |-> 0, requested_ |-> y.requested_,
                   sent_counter_ |-> y.sent_counter_, find_timer |-> y.find_timer, endpoint |-> FALSE,
                   verdict |-> v]
      BY <2>1, <3>1
    <3> QED
      BY <2>4, <3>2
  <2> QED
    BY <1>3, <2>3, <2>4 DEF Message
<1>9. IsPeer(peer') /\ peer'.known = m.offered
  BY <1>4, <1>8 DEF IsPeer
<1>10. IsNet(net') /\ Channelled(c, Tail(net[c]))
  BY <1>1, <1>2, NetTaken
<1>11. past'.history = {} => AllDue(node') /\ Remembered(node', peer'.known, net')
  BY <1>1, <1>2, <1>5, <1>9, <1>10, TakenRemembered DEF OfferInv, m
<1>12. Arrives(c)
  BY <1>2, <1>8, <1>10 DEF Arrives, Same, m, v, rec
<1>13. Phased(node')
  BY <1>2 DEF OfferInv
<1> QED
  BY <1>1, <1>2, <1>5, <1>9, <1>10, <1>11, <1>12, <1>13 DEF OfferInv, Shape, SessionStep

\* Every step keeps the invariant of the offers.
LEMMA OfferNext ==
    ASSUME OfferInv, [SdNext]_sdVars
    PROVE  OfferInv' /\ SessionStep
<1>1. CASE Environment
  BY <1>1, OfferStep, WithdrawSteps, RestartSteps, PeerSteps, LoseStep DEF Environment
<1>2. CASE NodeHandler
  BY <1>2, DebounceSteps, RepetitionStep, AnswerSteps DEF NodeHandler
<1>3. CASE PeerHandler \/ check_ttl \/ UNCHANGED sdVars
  BY <1>3, PeerSteps DEF PeerHandler
<1>4. CASE on_main_phase_timer_expired
  BY <1>4, MainStep
<1>5. CASE \E c \in Channels : discovery_on_message(c)
  BY <1>5, ArriveStep
<1> QED
  BY <1>1, <1>2, <1>3, <1>4, <1>5 DEF SdNext

-----------------------------------------------------------------------------
(* Sessions                                                                *)

\* Of two messages of one channel, sent between two restarts of the node, the later
\* one has the larger session unless its reboot flag is cleared.
Older(a, b) == a.starts = b.starts /\ b.flag => a.flag /\ a.session < b.session

\* The session of a message, if there was one.
IsSession(a) == a.starts \in Nat /\ a.session \in Nat /\ a.flag \in BOOLEAN

\* What the peer recorded, h, is older than what is under way, q, that is in order,
\* and older than what the node sends next, f.
Ordered(h, q, f) ==
    /\ h.starts <= f.starts
    /\ h.starts # 0 => Older(h, f)
    /\ \A k \in 1..Len(q) : /\ q[k].starts <= f.starts /\ Older(q[k], f)
                            /\ h.starts # 0 => Older(h, q[k])
                            /\ \A j \in 1..Len(q) : j < k => Older(q[j], q[k])

\* The next message of a channel, and the last one the peer recorded.
Following(c) == [starts |-> node.starts, session |-> node.sessions_sent_[c].session,
                 flag |-> node.sessions_sent_[c].flag]

Heard(c) == [starts |-> peer.sessions_received_.starts[c], session |-> peer.sessions_received_.session[c],
             flag |-> peer.sessions_received_.flag[c]]

SessionInv ==
    /\ \A c \in Channels : /\ Ordered(Heard(c), net[c], Following(c))
                           /\ Heard(c).starts # 0 => peer.sessions_received_.heard /\ Heard(c).session > 0
    /\ RebootsRecognised

\* A message is sent: it is what was to follow, and the next one is younger.
LEMMA SentOrdered ==
    ASSUME NEW h, NEW q \in Seq(Message), NEW f, NEW m \in Message, NEW g,
           IsSession(h), IsSession(f), IsSession(g), Ordered(h, q, f),
           m.starts = f.starts, m.session = f.session, m.flag = f.flag,
           g.starts = f.starts, g.flag => f.flag /\ f.session < g.session
    PROVE  Ordered(h, Append(q, m), g)
<1> DEFINE n == Append(q, m)
<1>1. Len(q) \in Nat /\ Len(n) = Len(q) + 1 /\ n[Len(q) + 1] = m /\ \A k \in 1..Len(q) : n[k] = q[k] /\ q[k] \in Message
  OBVIOUS
<1>2. Older(m, g)
  BY DEF Older
<1>3. h.starts # 0 => Older(h, m) /\ Older(h, g)
  BY DEF Older, Ordered, IsSession
<1>4. ASSUME NEW k \in 1..Len(q) PROVE Older(q[k], m) /\ Older(q[k], g) /\ q[k].starts <= g.starts
  <2>1. Older(q[k], f) /\ q[k].starts <= f.starts /\ q[k].session \in Nat
    BY <1>1 DEF Ordered, Message
  <2> QED
    BY <2>1 DEF Older, IsSession
<1>5. m.starts <= g.starts /\ h.starts <= g.starts
  BY DEF Ordered, IsSession
<1> HIDE DEF n
<1>6. ASSUME NEW k \in 1..Len(n)
      PROVE  /\ n[k].starts <= g.starts /\ Older(n[k], g)
             /\ h.starts # 0 => Older(h, n[k])
             /\ \A j \in 1..Len(n) : j < k => Older(n[j], n[k])
  <2>1. CASE k = Len(q) + 1
    <3>1. n[k] = m /\ \A j \in 1..Len(n) : j < k => j \in 1..Len(q)
      BY <1>1, <2>1
    <3> QED
      BY <1>1, <1>2, <1>3, <1>4, <1>5, <3>1
  <2>2. CASE k # Len(q) + 1
    <3>1. k \in 1..Len(q) /\ n[k] = q[k] /\ \A j \in 1..Len(n) : j < k => j \in 1..Len(q)
      BY <1>1, <2>2
    <3> QED
      BY <1>1, <1>4, <3>1 DEF Ordered
  <2> QED
    BY <2>1, <2>2
<1> QED
  BY <1>3, <1>5, <1>6 DEF Ordered, n

\* The node starts its sessions anew.
LEMMA RestartOrdered ==
    ASSUME NEW h, NEW q \in Seq(Message), NEW f, NEW g, IsSession(h), IsSession(f), Ordered(h, q, f),
           g.starts = f.starts + 1
    PROVE  Ordered(h, q, g)
<1>1. ASSUME NEW k \in 1..Len(q) PROVE q[k].starts \in Nat /\ q[k].starts <= f.starts
  <2>1. q[k] \in Message
    OBVIOUS
  <2> QED
    BY <2>1 DEF Message, Ordered
<1>2. \A k \in 1..Len(q) : q[k].starts <= g.starts /\ q[k].starts # g.starts
  BY <1>1 DEF IsSession
<1>3. h.starts <= g.starts /\ h.starts # g.starts
  BY DEF IsSession, Ordered
<1> QED
  BY <1>2, <1>3 DEF Ordered, Older

\* The first message is lost, or recorded, or shows a reboot with which all is forgotten.
LEMMA TakenOrdered ==
    ASSUME NEW h, NEW q \in Seq(Message), q # <<>>, NEW f, IsSession(f), Ordered(h, q, f), NEW g,
           \/ g = h
           \/ g.starts = Head(q).starts /\ g.session = Head(q).session /\ g.flag = Head(q).flag
           \/ g.starts = 0
    PROVE  Ordered(g, Tail(q), f)
<1>1. /\ Head(q) = q[1] /\ Len(q) \in Nat \ {0} /\ Len(Tail(q)) = Len(q) - 1
      /\ \A k \in 1..Len(Tail(q)) : k + 1 \in 1..Len(q) /\ Tail(q)[k] = q[k + 1]
  BY Taken
<1>2. 1 \in 1..Len(q) /\ \A k \in 1..Len(Tail(q)) : 1 < k + 1
  BY <1>1
<1>3. \A k \in 1..Len(Tail(q)), j \in 1..Len(Tail(q)) : j < k => j + 1 < k + 1
  BY <1>1
<1>4. \A k \in 1..Len(Tail(q)) :
          /\ Tail(q)[k].starts <= f.starts /\ Older(Tail(q)[k], f)
          /\ h.starts # 0 => Older(h, Tail(q)[k])
          /\ Older(q[1], Tail(q)[k])
          /\ \A j \in 1..Len(Tail(q)) : j < k => Older(Tail(q)[j], Tail(q)[k])
  BY <1>1, <1>2, <1>3 DEF Ordered
<1>5. CASE g = h
  BY <1>4, <1>5 DEF Ordered
<1>6. CASE g.starts = Head(q).starts /\ g.session = Head(q).session /\ g.flag = Head(q).flag
  <2>1. g.starts <= f.starts /\ Older(g, f)
    BY <1>1, <1>2, <1>6 DEF Ordered, Older
  <2>2. \A k \in 1..Len(Tail(q)) : Older(g, Tail(q)[k])
    BY <1>1, <1>4, <1>6 DEF Older
  <2> QED
    BY <1>4, <2>1, <2>2 DEF Ordered
<1>7. CASE g.starts = 0
  BY <1>4, <1>7 DEF Ordered, IsSession
<1> QED
  BY <1>5, <1>6, <1>7

\* What is_reboot() says of the message that arrives is right: it is younger than the
\* last one that was recorded for its channel.
LEMMA VerdictRight ==
    ASSUME Shape, SessionInv, NEW c \in Channels, net[c] # <<>>
    PROVE  Verdict(peer.sessions_received_, c, Head(net[c])) = "right"
<1> DEFINE r == peer.sessions_received_
           m == Head(net[c])
<1>1. net[c] \in Seq(Message) /\ IsPeer(peer)
  BY DEF Shape, IsNet
<1>2. m = net[c][1] /\ 1 \in 1..Len(net[c]) /\ m \in Message
  BY <1>1, Taken
<1>3. /\ Heard(c).starts # 0 => r.heard /\ Heard(c).session > 0
      /\ Heard(c).starts # 0 => Older(Heard(c), m)
  BY <1>2 DEF SessionInv, Ordered
<1> HIDE DEF m
<1>4. r.starts[c] \in Nat /\ r.session[c] \in Nat /\ r.flag[c] \in BOOLEAN /\ m.starts \in Nat \ {0} /\ m.session \in Nat
  BY <1>1, <1>2 DEF IsPeer, Message
<1>5. r.starts[c] # 0 => /\ r.heard /\ r.session[c] > 0
                         /\ r.starts[c] = m.starts /\ m.flag => r.flag[c] /\ r.session[c] < m.session
  BY <1>3 DEF Heard, Older
<1>6. ~(is_reboot(r, c, m) /\ r.starts[c] = m.starts)
  BY <1>4, <1>5 DEF is_reboot
<1>7. r.starts[c] # 0 /\ m.session = 1 /\ m.flag => is_reboot(r, c, m)
  BY <1>4, <1>5 DEF is_reboot
<1>8. Verdict(r, c, m) = "right"
  BY <1>6, <1>7 DEF Verdict
<1> QED
  BY <1>8 DEF m

\* Every step keeps the sessions in order.
LEMMA SessionNext ==
    ASSUME Shape, Shape', SessionInv, SessionStep
    PROVE  SessionInv'
<1>1. /\ IsNode(node) /\ IsPeer(peer) /\ IsNet(net)
      /\ \A c \in Channels : net[c] \in Seq(Message)
  BY DEF Shape, IsNet
<1>2. ASSUME NEW c \in Channels PROVE IsSession(Heard(c)) /\ IsSession(Following(c)) /\ node.sessions_sent_[c] \in Sessions
  <2>1. node.sessions_sent_[c] \in Sessions /\ node.starts \in Nat
    BY <1>1 DEF IsNode
  <2>2. /\ peer.sessions_received_.starts[c] \in Nat /\ peer.sessions_received_.session[c] \in Nat
        /\ peer.sessions_received_.flag[c] \in BOOLEAN
    BY <1>1 DEF IsPeer
  <2> QED
    BY <2>1, <2>2 DEF IsSession, Heard, Following, Sessions
<1>3. CASE Unheeded /\ ~\E c \in Channels : Arrives(c)
  <2>1. \A c \in Channels : Heard(c)' = Heard(c)
    BY <1>3 DEF Heard, Unheeded
  <2>2. RebootsRecognised'
    BY <1>3 DEF RebootsRecognised, Unheeded, SessionInv
  <2>3. \A c \in Channels : Heard(c)'.starts # 0 => peer'.sessions_received_.heard /\ Heard(c)'.session > 0
    BY <1>3, <2>1 DEF SessionInv, Unheeded
  <2>4. ASSUME NEW d \in Channels PROVE Ordered(Heard(d), net'[d], Following(d)')
    <3>1. ASSUME node'.starts = node.starts, node'.sessions_sent_[d] = node.sessions_sent_[d]
          PROVE  Following(d)' = Following(d)
      BY <3>1 DEF Following
    <3>2. CASE Silent
      <4>1. Following(d)' = Following(d) /\ net'[d] = net[d]
        BY <3>1, <3>2 DEF Silent, Same
      <4> QED
        BY <4>1 DEF SessionInv
    <3>3. CASE Restarts
      <4>1. Following(d)'.starts = Following(d).starts + 1 /\ net'[d] = net[d]
        BY <3>3 DEF Restarts, Following
      <4>2. net[d] \in Seq(Message) /\ Ordered(Heard(d), net[d], Following(d))
        BY <1>1 DEF SessionInv
      <4> QED
        BY <1>2, <4>1, <4>2, RestartOrdered
    <3>4. ASSUME NEW c \in Channels, Loses(c) PROVE Ordered(Heard(d), net'[d], Following(d)')
      <4>1. Following(d)' = Following(d)
        BY <3>1, <3>4 DEF Loses, Same
      <4>2. CASE d = c
        <5>1. net'[d] = Tail(net[d]) /\ net[d] # <<>> /\ net[d] \in Seq(Message)
          BY <1>1, <3>4, <4>2 DEF Loses, Channelled
        <5>2. Ordered(Heard(d), Tail(net[d]), Following(d))
          BY <1>2, <5>1, TakenOrdered DEF SessionInv
        <5> QED
          BY <4>1, <5>1, <5>2
      <4>3. CASE d # c
        BY <3>4, <4>1, <4>3 DEF Loses, Channelled, SessionInv
      <4> QED
        BY <4>2, <4>3
    <3>5. ASSUME NEW c \in Channels, NEW offered \in BOOLEAN, Sends(c, offered)
          PROVE  Ordered(Heard(d), net'[d], Following(d)')
      <4>1. CASE d # c
        <5>1. net'[d] = net[d] /\ node'.starts = node.starts /\ node'.sessions_sent_[d] = node.sessions_sent_[d]
          BY <1>1, <3>5, <4>1 DEF Sends, Channelled, IsNode
        <5> QED
          BY <3>1, <5>1 DEF SessionInv
      <4>2. CASE d = c
        <5> DEFINE m == [offered |-> offered, starts |-> node.starts, session |-> node.sessions_sent_[d].session,
                         flag |-> node.sessions_sent_[d].flag]
                   s == increment_session(node.sessions_sent_[d])
        <5>1. /\ net'[d] = Append(net[d], m) /\ net[d] \in Seq(Message)
              /\ node'.starts = node.starts /\ node'.sessions_sent_[d] = s
          BY <1>1, <3>5, <4>2 DEF Sends, Channelled, IsNode
        <5>2. m \in Message
          BY <1>1, <1>2 DEF Message, Sessions, IsNode
        <5>3. /\ m.starts = Following(d).starts /\ m.session = Following(d).session
              /\ m.flag = Following(d).flag
          BY DEF Following
        <5> HIDE DEF m
        <5>4. s \in Sessions /\ (s.flag => node.sessions_sent_[d].flag /\ node.sessions_sent_[d].session < s.session)
          BY <1>2, IncrementType
        <5> HIDE DEF s
        <5>5. /\ IsSession(Following(d)') /\ Following(d)'.starts = Following(d).starts
              /\ Following(d)'.flag => Following(d).flag /\ Following(d).session < Following(d)'.session
          BY <1>2, <5>1, <5>4 DEF Following, IsSession, Sessions
        <5>6. Ordered(Heard(d), net[d], Following(d))
          BY DEF SessionInv
        <5>7. Ordered(Heard(d), Append(net[d], m), Following(d)')
          BY <1>2, <5>1, <5>2, <5>3, <5>5, <5>6, SentOrdered
        <5> QED
          BY <5>1, <5>7
      <4> QED
        BY <4>1, <4>2
    <3> QED
      BY <1>3, <3>2, <3>3, <3>4, <3>5 DEF SessionStep
  <2> QED
    BY <2>1, <2>2, <2>3, <2>4 DEF SessionInv
<1>4. ASSUME NEW c \in Channels, Arrives(c) PROVE SessionInv'
  <2> DEFINE r == peer.sessions_received_
             m == Head(net[c])
  <2>1. net[c] # <<>> /\ m \in Message
    BY <1>1, <1>4, Taken DEF Arrives
  <2>2. peer'.verdict = "right" /\ peer'.sessions_received_ = Recorded(r, c, m)
    BY <1>4, <2>1, VerdictRight DEF Arrives
  <2> HIDE DEF m
  <2>3. ASSUME NEW d \in Channels
        PROVE  /\ \/ Heard(d)' = Heard(d) /\ d # c
                  \/ d = c /\ Heard(d)'.starts = m.starts /\ Heard(d)'.session = m.session /\ Heard(d)'.flag = m.flag
                  \/ Heard(d)'.starts = 0
               /\ Heard(d)'.starts # 0 => peer'.sessions_received_.heard /\ Heard(d)'.session > 0
    <3>1. CASE is_reboot(r, c, m)
      BY <2>2, <3>1 DEF Recorded, Unheard, Heard
    <3>2. CASE ~is_reboot(r, c, m)
      <4> DEFINE p == peer'.sessions_received_
      <4>1. p = [r EXCEPT !.heard = TRUE, !.session[c] = m.session, !.flag[c] = m.flag, !.starts[c] = m.starts]
        BY <2>2, <3>2 DEF Recorded
      <4>2. r \in [heard : BOOLEAN, session : [Channels -> Nat], flag : [Channels -> BOOLEAN], starts : [Channels -> Nat]]
        BY <1>1 DEF IsPeer
      <4>3. /\ p.heard = TRUE /\ p.session = [r.session EXCEPT ![c] = m.session]
            /\ p.flag = [r.flag EXCEPT ![c] = m.flag] /\ p.starts = [r.starts EXCEPT ![c] = m.starts]
        BY <4>1, <4>2
      <4>4. m.session > 0
        BY <2>1 DEF Message
      <4>5. CASE d = c
        BY <4>2, <4>3, <4>4, <4>5 DEF Heard
      <4>6. CASE d # c
        BY <4>2, <4>3, <4>6 DEF Heard, SessionInv
      <4> QED
        BY <4>5, <4>6
    <3> QED
      BY <3>1, <3>2
  <2>4. ASSUME NEW d \in Channels PROVE Ordered(Heard(d)', net'[d], Following(d)')
    <3>1. Following(d)' = Following(d)
      BY <1>4 DEF Following, Arrives, Same
    <3>2. Ordered(Heard(d), net[d], Following(d)) /\ net[d] \in Seq(Message)
      BY <1>1 DEF SessionInv
    <3>3. CASE d = c
      <4>1. net'[d] = Tail(net[d]) /\ net[d] # <<>>
        BY <1>4, <3>3 DEF Arrives, Channelled
      <4>2. \/ Heard(d)'.starts = Head(net[d]).starts /\ Heard(d)'.session = Head(net[d]).session
               /\ Heard(d)'.flag = Head(net[d]).flag
            \/ Heard(d)'.starts = 0
        BY <2>3, <3>3 DEF m
      <4>3. Ordered(Heard(d)', Tail(net[d]), Following(d))
        BY <1>2, <3>2, <4>1, <4>2, TakenOrdered
      <4> QED
        BY <3>1, <4>1, <4>3
    <3>4. CASE d # c
      <4>1. net'[d] = net[d]
        BY <1>4, <3>4 DEF Arrives, Channelled
      <4>2. Heard(d)' = Heard(d) \/ Heard(d)'.starts = 0
        BY <2>3, <3>4
      <4>3. Ordered(Heard(d)', net[d], Following(d))
        BY <1>2, <3>2, <4>2 DEF Ordered, IsSession
      <4> QED
        BY <3>1, <4>1, <4>3
    <3> QED
      BY <3>3, <3>4
  <2> QED
    BY <2>2, <2>3, <2>4 DEF SessionInv, RebootsRecognised
<1>5. Unheeded \/ \E c \in Channels : Arrives(c)
  BY DEF SessionStep, Silent, Restarts, Loses, Sends
<1> QED
  BY <1>3, <1>4, <1>5

-----------------------------------------------------------------------------
(* Theorems                                                                *)

\* Nothing is offered, told or recorded at the start.
LEMMA InitDiscovery ==
    ASSUME SdInit
    PROVE  OfferInv /\ SessionInv
<1>1. /\ node = [services_ |-> 0, infos |-> <<>>, collected_offers_ |-> 0, repetition_phase_timers_ |-> {},
                 offer_debounce_timer_ |-> TRUE, debounce |-> {}, answer |-> NotBusy, is_suspended_ |-> FALSE,
                 sessions_sent_ |-> [c \in Channels |-> [session |-> 1, flag |-> TRUE]], starts |-> 1]
      /\ past = [upsets |-> 0, history |-> {}] /\ net = [multicast |-> <<>>, unicast |-> <<>>, find |-> 0]
  BY DEF SdInit, Node
<1>2. /\ peer = [sessions_received_ |-> Unheard, known |-> FALSE, ttl |-> 0, requested_ |-> FALSE,
                 sent_counter_ |-> 0, find_timer |-> 0, endpoint |-> FALSE, verdict |-> "right"]
  BY DEF SdInit, Peer
<1>3. IsNode(node)
  <2>1. NotBusy \in [pc : {"idle", "made"}, info : 0..Len(<<>>), offered : BOOLEAN]
    BY DEF NotBusy
  <2>2. [c \in Channels |-> [session |-> 1, flag |-> TRUE]] \in [Channels -> Sessions]
    BY DEF Sessions
  <2> QED
    BY <1>1, <2>1, <2>2 DEF IsNode
<1>4. IsPeer(peer)
  BY <1>2 DEF IsPeer, Unheard
<1>5. IsNet(net) /\ \A c \in Channels : net[c] = <<>>
  BY <1>1 DEF IsNet, Channels
<1>6. Phased(node) /\ AllDue(node)
  BY <1>1 DEF Phased, AllDue
<1>7. Remembered(node, peer.known, net)
  BY <1>1, <1>2 DEF Remembered, Answered
<1>8. OfferInv
  BY <1>1, <1>3, <1>4, <1>5, <1>6, <1>7 DEF OfferInv, Shape
<1>9. \A c \in Channels : Heard(c).starts = 0 /\ Following(c).starts = 1
  BY <1>1, <1>2 DEF Heard, Following, Unheard
<1>10. SessionInv
  BY <1>2, <1>5, <1>9 DEF SessionInv, Ordered, RebootsRecognised
<1> QED
  BY <1>8, <1>10

\* A peer that knows a service of which all was told knows one that is offered.
LEMMA ForgottenWithdrawn ==
    ASSUME OfferInv
    PROVE  WithdrawnIsForgotten
<1> SUFFICES ASSUME AllTold, past.history = {}, peer.known
             PROVE  Offered
  BY DEF WithdrawnIsForgotten
<1>1. net["multicast"] = <<>>
  BY DEF AllTold, Channels
<1>2. ~StopBehind(net["multicast"], 0)
  BY <1>1 DEF StopBehind
<1>3. PICK i \in 1..Len(node.infos) : node.infos[i].told # {}
  BY <1>2 DEF OfferInv, Remembered, SomethingTold
<1>4. node.infos[i].ttl
  <2>1. Due(node, i)
    BY DEF OfferInv, AllDue
  <2>2. ~Debounced(node, i) /\ (Timed(node, i) => node.infos[i].ttl)
    BY DEF AllTold, Debounced, Timed
  <2> QED
    BY <1>3, <2>1, <2>2 DEF Due
<1>5. i = node.services_ /\ ~node.is_suspended_ /\ i # 0
  BY <1>3, <1>4 DEF OfferInv, Phased
<1> QED
  BY <1>5 DEF Offered

\* Every state has both invariants.
LEMMA DiscoveryInvariant == SdSpec => [](OfferInv /\ SessionInv)
<1>1. SdInit => OfferInv /\ SessionInv
  BY InitDiscovery
<1>2. OfferInv /\ SessionInv /\ [SdNext]_sdVars => (OfferInv /\ SessionInv)'
  <2> SUFFICES ASSUME OfferInv, SessionInv, [SdNext]_sdVars PROVE (OfferInv /\ SessionInv)'
    OBVIOUS
  <2>1. OfferInv' /\ SessionStep
    BY OfferNext
  <2>2. Shape /\ Shape'
    BY <2>1 DEF OfferInv
  <2> QED
    BY <2>1, <2>2, SessionNext
<1> QED
  BY <1>1, <1>2, PTL DEF SdSpec

\* For every number of repetitions, largest session and TTL, and whatever is lost:
\* is_reboot() says of no message that its sender restarted when it did not, and
\* recognises the first message after every restart, unless nothing is recorded for
\* its channel (service_discovery_impl.cpp, is_reboot and increment_session).
THEOREM RebootsAreRecognised == SdSpec => []RebootsRecognised
<1>1. OfferInv /\ SessionInv => RebootsRecognised
  BY DEF SessionInv
<1> QED
  BY <1>1, DiscoveryInvariant, PTL

\* A service that was withdrawn, in whatever phase of its Offer, is not known to the
\* peer any more once all messages have arrived and no handler or timer is due, but
\* for the ways past.history names (stop_offer_service, the debounce handler and the
\* repetition phase of service_discovery_impl.cpp).
THEOREM WithdrawnServicesForgotten == SdSpec => []WithdrawnIsForgotten
<1>1. OfferInv /\ SessionInv => WithdrawnIsForgotten
  BY ForgottenWithdrawn
<1> QED
  BY <1>1, DiscoveryInvariant, PTL
============================================================================
