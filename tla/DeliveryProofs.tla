-------------------------- MODULE DeliveryProofs ----------------------------
(***************************************************************************)
(* Proofs about what an application is handed: messages put together from  *)
(* SOME/IP-TP segments (TpReassembly), and the reports of its availability *)
(* handlers (Availability).                                                *)
(***************************************************************************)
EXTENDS TpReassembly, Availability, TLAPS

\* e has an age.
Aged(e) == "age" \in DOMAIN e

\* The timer waits, or its handler is due, while the flag says so, but for a lapse;
\* and the flag says so as long as there is something to watch.
TimerInv ==
    /\ cleanup_timer_running_ \in BOOLEAN /\ cleanup_due \in BOOLEAN
    /\ cleanup_timer_ \in {-1} \cup 1..FiveSeconds
    /\ cleanup_timer_running_ => cleanup_timer_ > 0 \/ cleanup_due \/ lapse = "open"
    /\ ~cleanup_timer_running_ => cleanup_timer_ = -1 /\ ~cleanup_due
    /\ cleanup_due => cleanup_timer_ = -1
    /\ DOMAIN tp_messages_ # {} \/ segment # {} => cleanup_timer_running_ \/ lapse = "open"

\* What is left of the timer and the age of a message are ten seconds at most.
AgeInv ==
    \A id \in DOMAIN tp_messages_ :
        /\ Aged(Entry(id)) /\ Entry(id).age \in Nat
        /\ lapse = "none" =>
            /\ cleanup_timer_ > 0 => Entry(id).age + cleanup_timer_ <= 2 * FiveSeconds
            /\ cleanup_due => Entry(id).age <= 2 * FiveSeconds

IInv == TimerInv /\ AgeInv

-----------------------------------------------------------------------------
(* The messages                                                            *)

\* A segment that is stored does not change the age of its message.
LEMMA StoredKeepsAge ==
    ASSUME NEW e, Aged(e), NEW s, NEW start, NEW end, NEW message
    PROVE  Aged(Stored(e, s, start, end, message)) /\ Stored(e, s, start, end, message).age = e.age
BY DEF Aged, Stored

\* add_segment does not make a message younger.
LEMMA AddKeepsAge ==
    ASSUME NEW e, Aged(e), NEW s
    PROVE  Aged(add_segment(e, s)) /\ add_segment(e, s).age = e.age
<1> DEFINE seg == [start |-> s.start, end |-> s.end]
           before == {t \in e.segments_ : Before(t, seg)}
           after == {t \in e.segments_ : Before(seg, t)}
<1>1. add_segment(e, s) = IF ~check_lengths(e, s) \/ seg \in e.segments_ THEN e
                          ELSE IF after = {} THEN AddBehind(e, s, before)
                          ELSE AddBetween(e, s, before, after)
  BY DEF add_segment
<1> HIDE DEF seg, before, after
<1>2. Aged(AddBehind(e, s, before)) /\ AddBehind(e, s, before).age = e.age
  <2> DEFINE prev == Last_(before)
             padded == Resize(e.message_, s.start)
  <2>1. AddBehind(e, s, before) =
          IF before = {} THEN Stored(e, s, s.start, s.end, padded \o Payload(s, s.start, s.end))
          ELSE IF prev.end < s.start
          THEN Stored(e, s, s.start, s.end,
                      (IF prev.end + 1 = s.start THEN e.message_ ELSE padded) \o Payload(s, s.start, s.end))
          ELSE Stored(e, s, prev.end + 1, s.end, e.message_ \o Payload(s, prev.end + 1, s.end))
    BY DEF AddBehind
  <2> HIDE DEF prev, padded
  <2>2. PICK start, end, message : AddBehind(e, s, before) = Stored(e, s, start, end, message)
    BY <2>1, Zenon
  <2> QED BY <2>2, StoredKeepsAge
<1>3. Aged(AddBetween(e, s, before, after)) /\ AddBetween(e, s, before, after).age = e.age
  <2>1. PICK start, end, message : AddBetween(e, s, before, after) = Stored(e, s, start, end, message)
    BY Zenon DEF AddBetween
  <2> QED BY <2>1, StoredKeepsAge
<1> QED BY <1>1, <1>2, <1>3

\* A message that begins is new.
LEMMA BeginsNew ==
    ASSUME NEW s
    PROVE  Aged(tp_message(s)) /\ tp_message(s).age = 0
BY DEF Aged, tp_message

-----------------------------------------------------------------------------
(* The steps                                                               *)

\* A segment arrives: the timer is started if it does not run.
LEMMA ArrivesStep == ASSUME IInv, SegmentArrives PROVE IInv'
<1>1. TimerInv'
  BY FiveSecondsAssumption DEF IInv, TimerInv, SegmentArrives
<1>2. AgeInv'
  <2> SUFFICES ASSUME NEW id \in DOMAIN tp_messages_
               PROVE  /\ Aged(Entry(id)) /\ Entry(id).age \in Nat
                      /\ lapse' = "none" =>
                          /\ cleanup_timer_' > 0 => Entry(id).age + cleanup_timer_' <= 2 * FiveSeconds
                          /\ cleanup_due' => Entry(id).age <= 2 * FiveSeconds
    BY DEF AgeInv, SegmentArrives, Entry
  <2>1. Aged(Entry(id)) /\ Entry(id).age \in Nat
    BY DEF IInv, AgeInv
  <2>2. lapse' = "none" => cleanup_timer_running_ /\ lapse = "none"
    BY DEF IInv, TimerInv, SegmentArrives
  <2>3. cleanup_timer_running_ => cleanup_timer_' = cleanup_timer_ /\ cleanup_due' = cleanup_due
    BY DEF SegmentArrives
  <2> QED BY <2>1, <2>2, <2>3 DEF IInv, AgeInv
<1> QED BY <1>1, <1>2 DEF IInv

\* The segment is stored.
LEMMA ProcessStep == ASSUME IInv, process_tp_message PROVE IInv'
<1>1. PICK s \in segment :
        LET e == Processed(s)
        IN  IF Complete(e)
            THEN /\ received' = received \cup {[id |-> s.of.id, session |-> e.session, message_ |-> e.message_]}
                 /\ tp_messages_' = Without({s.of.id})
            ELSE /\ tp_messages_' = With(s.of.id, e)
                 /\ UNCHANGED received
  BY DEF process_tp_message
<1> DEFINE e == Processed(s)
           i == s.of.id
<1>2. UNCHANGED <<cleanup_timer_running_, cleanup_timer_, cleanup_due, lapse>> /\ segment' = {}
  BY DEF process_tp_message
<1>3. cleanup_timer_running_ \/ lapse = "open"
  BY DEF IInv, TimerInv
<1>4. tp_messages_' = Without({i}) \/ tp_messages_' = With(i, e)
  BY <1>1
<1>5. TimerInv'
  BY <1>2, <1>3 DEF IInv, TimerInv
<1>6. /\ Aged(e) /\ e.age \in Nat
      /\ e.age = 0 \/ (i \in DOMAIN tp_messages_ /\ e.age = Entry(i).age)
  <2>1. CASE i \notin DOMAIN tp_messages_ \/ Entry(i).session # s.of.session
    <3>1. e = tp_message(s)
      BY <2>1 DEF Processed
    <3> QED BY <3>1, BeginsNew
  <2>2. CASE ~(i \notin DOMAIN tp_messages_ \/ Entry(i).session # s.of.session)
    <3>1. e = add_segment(Entry(i), s)
      BY <2>2 DEF Processed
    <3>2. i \in DOMAIN tp_messages_ /\ Aged(Entry(i)) /\ Entry(i).age \in Nat
      BY <2>2 DEF IInv, AgeInv
    <3> QED BY <3>1, <3>2, AddKeepsAge
  <2> QED BY <2>1, <2>2
<1> HIDE DEF e, i
<1>7. ASSUME NEW id \in DOMAIN tp_messages_'
      PROVE  (id \in DOMAIN tp_messages_ /\ tp_messages_'[id] = Entry(id)) \/ (id = i /\ tp_messages_'[id] = e)
  BY <1>4, <1>7 DEF With, Without, Entry
<1>8. AgeInv'
  <2> SUFFICES ASSUME NEW id \in DOMAIN tp_messages_'
               PROVE  /\ Aged(tp_messages_'[id]) /\ tp_messages_'[id].age \in Nat
                      /\ lapse = "none" =>
                          /\ cleanup_timer_ > 0 => tp_messages_'[id].age + cleanup_timer_ <= 2 * FiveSeconds
                          /\ cleanup_due => tp_messages_'[id].age <= 2 * FiveSeconds
    BY <1>2 DEF AgeInv, Entry
  <2>1. CASE id \in DOMAIN tp_messages_ /\ tp_messages_'[id] = Entry(id)
    BY <2>1 DEF IInv, AgeInv
  <2>2. CASE tp_messages_'[id] = e /\ e.age = 0
    BY <1>6, <2>2, FiveSecondsAssumption DEF IInv, TimerInv
  <2>3. CASE tp_messages_'[id] = e /\ i \in DOMAIN tp_messages_ /\ e.age = Entry(i).age
    BY <1>6, <2>3 DEF IInv, AgeInv
  <2> QED BY <1>6, <1>7, <2>1, <2>2, <2>3
<1> QED BY <1>5, <1>8 DEF IInv

\* The timer's handler deletes what is older than five seconds and starts the timer
\* again for the rest.
LEMMA CleanupStep == ASSUME IInv, cleanup_timer_cbk PROVE IInv'
<1>1. DOMAIN tp_messages_' = DOMAIN tp_messages_ \ Old
  BY DEF cleanup_timer_cbk, Without
<1>2. TimerInv'
  <2>1. CASE DOMAIN tp_messages_ \ Old # {}
    <3>1. /\ cleanup_timer_' = FiveSeconds /\ ~cleanup_due' /\ cleanup_due /\ cleanup_due' \in BOOLEAN
          /\ UNCHANGED <<cleanup_timer_running_, lapse, segment>>
      BY <2>1 DEF cleanup_timer_cbk
    <3>2. cleanup_timer_running_ = TRUE
      BY <3>1 DEF IInv, TimerInv
    <3> QED BY <3>1, <3>2, FiveSecondsAssumption DEF TimerInv
  <2>2. CASE DOMAIN tp_messages_ \ Old = {}
    BY <1>1, <2>2 DEF IInv, TimerInv, cleanup_timer_cbk
  <2> QED BY <2>1, <2>2
<1>3. AgeInv'
  <2> SUFFICES ASSUME NEW id \in DOMAIN tp_messages_'
               PROVE  /\ Aged(tp_messages_'[id]) /\ tp_messages_'[id].age \in Nat
                      /\ cleanup_timer_' > 0 => tp_messages_'[id].age + cleanup_timer_' <= 2 * FiveSeconds
                      /\ ~cleanup_due'
    BY DEF AgeInv, Entry
  <2>1. id \in DOMAIN tp_messages_ /\ id \notin Old /\ tp_messages_'[id] = Entry(id)
    BY <1>1 DEF cleanup_timer_cbk, Without, Entry
  <2>2. Aged(Entry(id)) /\ Entry(id).age \in Nat
    BY <2>1 DEF IInv, AgeInv
  <2>3. Entry(id).age <= FiveSeconds
    BY <2>1, <2>2, FiveSecondsAssumption DEF Old
  <2>4. cleanup_timer_' = FiveSeconds /\ ~cleanup_due'
    BY <1>1 DEF cleanup_timer_cbk
  <2> QED BY <2>1, <2>2, <2>3, <2>4, FiveSecondsAssumption
<1> QED BY <1>2, <1>3 DEF IInv

\* The endpoint is restarted: a timer that waits is lost.
LEMMA ReopenStep == ASSUME IInv, Reopen PROVE IInv'
<1>1. TimerInv'
  BY DEF IInv, TimerInv, Reopen
<1>2. AgeInv'
  <2> SUFFICES ASSUME NEW id \in DOMAIN tp_messages_
               PROVE  /\ Aged(Entry(id)) /\ Entry(id).age \in Nat
                      /\ lapse' = "none" => (cleanup_due => Entry(id).age <= 2 * FiveSeconds)
    BY DEF AgeInv, Reopen, Entry
  <2> QED BY DEF IInv, AgeInv, Reopen
<1> QED BY <1>1, <1>2 DEF IInv

\* Time passes for the messages and for the timer.
LEMMA TimeStep == ASSUME IInv, TimePasses PROVE IInv'
<1>1. DOMAIN tp_messages_' = DOMAIN tp_messages_
  BY DEF TimePasses
<1>2. TimerInv'
  BY <1>1, FiveSecondsAssumption DEF IInv, TimerInv, TimePasses
<1>3. AgeInv'
  <2> SUFFICES ASSUME NEW id \in DOMAIN tp_messages_
               PROVE  /\ Aged(tp_messages_'[id]) /\ tp_messages_'[id].age \in Nat
                      /\ lapse = "none" =>
                          /\ cleanup_timer_' > 0 => tp_messages_'[id].age + cleanup_timer_' <= 2 * FiveSeconds
                          /\ cleanup_due' => tp_messages_'[id].age <= 2 * FiveSeconds
    BY <1>1 DEF AgeInv, Entry, TimePasses
  <2> DEFINE e == Entry(id)
             a == Min2(e.age + 1, 2 * FiveSeconds + 1)
  <2>1. /\ Aged(e) /\ e.age \in Nat
        /\ lapse = "none" => (cleanup_timer_ > 0 => e.age + cleanup_timer_ <= 2 * FiveSeconds)
    BY DEF IInv, AgeInv
  <2>2. tp_messages_'[id] = [e EXCEPT !.age = a]
    BY DEF TimePasses
  <2>3. a \in Nat /\ a <= e.age + 1
    BY <2>1, FiveSecondsAssumption DEF Min2
  <2> HIDE DEF a, e
  <2>4. Aged([e EXCEPT !.age = a]) /\ [e EXCEPT !.age = a].age = a
    BY <2>1 DEF Aged
  <2>5. cleanup_timer_' > 0 => cleanup_timer_ > 0 /\ cleanup_timer_' = cleanup_timer_ - 1
    BY DEF TimePasses, IInv, TimerInv
  <2>6. cleanup_due' => cleanup_timer_ = 1
    BY DEF TimePasses
  <2> QED BY <2>1, <2>2, <2>3, <2>4, <2>5, <2>6, FiveSecondsAssumption DEF IInv, TimerInv
<1> QED BY <1>2, <1>3 DEF IInv

-----------------------------------------------------------------------------
(* The theorems                                                            *)

\* The invariant of the cleanup timer.
LEMMA Invariant == TpSpec => []IInv
<1>1. TpInit => IInv
  <2>1. DOMAIN <<>> = {}
    OBVIOUS
  <2>2. TpInit => TimerInv
    BY <2>1 DEF TpInit, TimerInv
  <2>3. TpInit => AgeInv
    BY <2>1 DEF TpInit, AgeInv
  <2> QED BY <2>2, <2>3 DEF IInv
<1>2. IInv /\ [TpNext]_tpVars => IInv'
  <2>1. IInv /\ UNCHANGED tpVars => IInv'
    BY DEF IInv, TimerInv, AgeInv, tpVars, Entry
  <2> QED BY <2>1, ArrivesStep, ProcessStep, CleanupStep, ReopenStep, TimeStep DEF TpNext
<1> QED BY <1>1, <1>2, PTL DEF TpSpec

\* Every unfinished message is watched by cleanup_timer_, unless the timer ended between
\* its check and the insertion of a message, or the endpoint was restarted.
THEOREM UnfinishedAreTimed == TpSpec => []UnfinishedIsTimed
<1>1. IInv => UnfinishedIsTimed
  BY DEF IInv, TimerInv, UnfinishedIsTimed
<1> QED BY <1>1, Invariant, PTL

\* As long as neither happened, an unfinished message is deleted after ten seconds at
\* most: twice the five of cleanup_timer_start and cleanup_unfinished_messages.
THEOREM OldAreDeleted == TpSpec => []DeletedInTime
<1>1. IInv => DeletedInTime
  BY FiveSecondsAssumption DEF IInv, TimerInv, AgeInv, DeletedInTime
<1> QED BY <1>1, Invariant, PTL

-----------------------------------------------------------------------------
(* Availability: what a handler was told of an instance                    *)

VersionType == [major : Nat, minor : Nat]

StateType == [major : Nat, minor : Nat, state : {"AVAILABLE", "OFFERED"}]

\* An instance is offered in one version at a time.
OneVersion ==
    /\ available_ \in [Instances -> SUBSET StateType]
    /\ \A p \in Instances : \A v, w \in available_[p] : v = w

\* Each handler registered has its states and its reports.
ReportShape ==
    /\ handlers \in HandlerSets /\ Registered \subseteq handlers
    /\ availability_ = [h \in Registered |-> availability_[h]]
    /\ told = [h \in Registered |-> told[h]]
    /\ \A h \in Registered : /\ told[h] = [q \in DOMAIN told[h] |-> told[h][q]]
                             /\ Instances \subseteq DOMAIN told[h]

Fits(h, v) == h.major \in {v.major, ANY} /\ MinorFits(h.minor, v)

SameVersion(w, v) == w.major = v.major /\ w.minor = v.minor

Kept(states, p, v) == get_availability_state(states, p, v)

\* The states a handler keeps of an instance are about versions it asks for, and
\* those of the version that is offered are true.
KeptIsTrue(h, states, p, offered) ==
    \A v \in VersionType :
        LET state == Kept(states, p, v)
        IN  /\ state # "UNKNOWN" => Asks(h, p) /\ Fits(h, v)
            /\ state \in {"AVAILABLE", "OFFERED"} => \E w \in offered : SameVersion(w, v) /\ w.state = state
            /\ state = "UNAVAILABLE" => \A w \in offered : ~SameVersion(w, v)

ReportInv ==
    /\ OneVersion /\ ReportShape /\ ReportsTrue
    /\ \A h \in Registered : \A p \in Instances :
          <<h, p>> \notin displaced => KeptIsTrue(h, availability_[h], p, available_[p])

\* A state that is set is kept, and the others are as they were.
LEMMA StateSet ==
    ASSUME NEW states, NEW p, NEW v, NEW state, NEW q, NEW u
    PROVE  Kept(set_availability_state(states, p, v, state), q, u)
              = IF <<q, u.major, u.minor>> = <<p, v.major, v.minor>> THEN state ELSE Kept(states, q, u)
BY DEF Kept, get_availability_state, set_availability_state

\* What is_available_unlocked() finds of an instance of which one version is offered.
LEMMA FoundState ==
    ASSUME OneVersion, NEW p \in Instances, NEW major, NEW minor
    PROVE  /\ \A w \in available_[p] : major \in {w.major, ANY} /\ MinorFits(minor, w)
                 => is_available_unlocked(p, major, minor) = w.state
           /\ is_available_unlocked(p, major, minor) # "UNKNOWN"
                 => \E w \in available_[p] : is_available_unlocked(p, major, minor) = w.state
<1>1. available_[p] \subseteq StateType /\ \A v, w \in available_[p] : v = w
  BY DEF OneVersion
<1>2. Found(p, major, minor) \subseteq available_[p]
  BY DEF Found
<1>3. ASSUME NEW w \in available_[p], major \in {w.major, ANY}, MinorFits(minor, w)
      PROVE  is_available_unlocked(p, major, minor) = w.state
  <2>1. w.major \in Nat /\ w.major <= w.major
    BY <1>1 DEF StateType
  <2>2. available_[p] = {w}
    BY <1>1
  <2>3. Found(p, major, minor) = {w}
    BY <1>3, <2>1, <2>2, AvailabilityAssumption DEF Found
  <2> QED
    BY <2>3 DEF is_available_unlocked
<1>4. is_available_unlocked(p, major, minor) # "UNKNOWN"
          => \E w \in available_[p] : is_available_unlocked(p, major, minor) = w.state
  BY <1>2 DEF is_available_unlocked
<1> QED
  BY <1>3, <1>4

\* The handlers find_matching_handler finds ask for the version, and keep another state.
LEMMA MatchingFits ==
    ASSUME ReportShape, NEW h \in Registered, NEW p, NEW v \in VersionType, NEW state
    PROVE  h \in Matching(p, state, v) <=> Asks(h, p) /\ Fits(h, v) /\ Kept(availability_[h], p, v) # state
<1>1. h.minor \in Nat \cup {ANY} /\ v.minor \in Nat
  BY AvailabilityAssumption DEF ReportShape, VersionType
<1>2. h.minor \in (0..v.minor) \cup {ANY} <=> MinorFits(h.minor, v)
  BY <1>1 DEF MinorFits, DEFAULT_MINOR
<1> QED
  BY <1>2 DEF Matching, Fits, Kept

\* OnAvailability: a handler that is not told of the change kept the state already.
LEMMA OnAvailabilityStep ==
    ASSUME ReportInv, NEW p \in Instances, NEW v \in Versions,
           NEW state \in {"AVAILABLE", "OFFERED", "UNAVAILABLE"}, OnAvailability(p, state, v)
    PROVE  ReportInv'
<1> DEFINE now == IF state = "UNAVAILABLE" THEN {} ELSE {[major |-> v.major, minor |-> v.minor, state |-> state]}
           Changed == Matching(p, state, v)
<1>1. v \in VersionType /\ v.major \in Nat /\ v.minor \in Nat /\ OneVersion /\ ReportShape
  BY AvailabilityAssumption DEF VersionType, ReportInv
<1>2. \A w \in available_[p] : SameVersion(w, v)
  BY DEF OnAvailability, SameVersion
<1>3. \A w \in available_[p] : w.state # state
  <2> TAKE w \in available_[p]
  <2>1. v.major \in {w.major, ANY} /\ MinorFits(v.minor, w)
    BY <1>1, <1>2 DEF SameVersion, MinorFits
  <2>2. is_available_unlocked(p, v.major, v.minor) = w.state
    BY <1>1, <2>1, FoundState
  <2> QED
    BY <2>2 DEF OnAvailability
<1>4. available_' = [available_ EXCEPT ![p] = now]
  <2>1. Updated(p, state, v) = now
    <3>1. CASE state # "UNAVAILABLE"
      <4>1. {w \in available_[p] : w.major # v.major} = {}
        BY <1>2 DEF SameVersion
      <4> QED
        BY <3>1, <4>1 DEF Updated
    <3>2. CASE state = "UNAVAILABLE"
      BY <1>2, <3>2 DEF Updated, SameVersion
    <3> QED
      BY <3>1, <3>2
  <2> QED
    BY <2>1 DEF OnAvailability
<1>5. /\ now \in SUBSET StateType /\ \A w, u \in now : w = u
      /\ \A w \in now : SameVersion(w, v) /\ w.state = state
      /\ state # "UNAVAILABLE" => \E w \in now : SameVersion(w, v) /\ w.state = state
      /\ state = "UNAVAILABLE" => now = {}
  <2>1. CASE state = "UNAVAILABLE"
    BY <2>1
  <2>2. CASE state # "UNAVAILABLE"
    <3>1. now = {[major |-> v.major, minor |-> v.minor, state |-> state]}
      BY <2>2
    <3>2. [major |-> v.major, minor |-> v.minor, state |-> state] \in StateType
      BY <1>1, <2>2 DEF StateType
    <3> HIDE DEF now
    <3> QED
      BY <2>2, <3>1, <3>2 DEF SameVersion
  <2> QED
    BY <2>1, <2>2
<1> HIDE DEF now
<1>6. /\ available_'[p] = now /\ \A q \in Instances : q # p => available_'[q] = available_[q]
      /\ OneVersion'
  BY <1>1, <1>4, <1>5 DEF OneVersion
<1>7. /\ handlers' = handlers /\ displaced' = displaced /\ misled' = misled \ {<<h, p>> : h \in Changed}
      /\ availability_' = [h \in Registered |-> IF h \in Changed
                               THEN set_availability_state(availability_[h], p, v, state) ELSE availability_[h]]
      /\ told' = [h \in Registered |-> IF h \in Changed THEN [told[h] EXCEPT ![p] = state] ELSE told[h]]
  BY DEF OnAvailability
<1>8. \A h \in Registered : h \in Changed <=> Asks(h, p) /\ Fits(h, v) /\ Kept(availability_[h], p, v) # state
  BY <1>1, MatchingFits
<1> HIDE DEF Changed
<1>9. Registered' = Registered
  BY <1>7 DEF Registered
<1>10. ReportShape'
  <2>1. \A h \in Registered : /\ told'[h] = [q \in DOMAIN told'[h] |-> told'[h][q]]
                               /\ Instances \subseteq DOMAIN told'[h]
    BY <1>1, <1>7 DEF ReportShape
  <2>2. availability_' = [h \in Registered |-> availability_'[h]] /\ told' = [h \in Registered |-> told'[h]]
    BY <1>7
  <2> QED
    BY <1>1, <1>7, <1>9, <2>1, <2>2 DEF ReportShape
<1>11. ASSUME NEW h \in Registered, NEW q \in Instances, <<h, q>> \notin displaced
       PROVE  KeptIsTrue(h, availability_'[h], q, available_'[q])
  <2>1. KeptIsTrue(h, availability_[h], q, available_[q])
    BY <1>11 DEF ReportInv
  <2>2. ASSUME NEW u \in VersionType
        PROVE  Kept(availability_'[h], q, u)
                  = IF h \in Changed /\ q = p /\ SameVersion(u, v) THEN state ELSE Kept(availability_[h], q, u)
    <3>1. CASE h \in Changed
      <4>1. availability_'[h] = set_availability_state(availability_[h], p, v, state)
        BY <1>7, <3>1
      <4>2. Kept(availability_'[h], q, u)
              = IF <<q, u.major, u.minor>> = <<p, v.major, v.minor>> THEN state ELSE Kept(availability_[h], q, u)
        BY <4>1, StateSet
      <4> QED
        BY <3>1, <4>2 DEF SameVersion
    <3>2. CASE h \notin Changed
      BY <1>7, <3>2
    <3> QED
      BY <3>1, <3>2
  <2>3. CASE q # p
    BY <1>6, <2>1, <2>2, <2>3 DEF KeptIsTrue
  <2>4. CASE q = p
    <3> SUFFICES ASSUME NEW u \in VersionType
                 PROVE  LET kept == Kept(availability_'[h], q, u)
                        IN  /\ kept # "UNKNOWN" => Asks(h, q) /\ Fits(h, u)
                            /\ kept \in {"AVAILABLE", "OFFERED"} => \E w \in now : SameVersion(w, u) /\ w.state = kept
                            /\ kept = "UNAVAILABLE" => \A w \in now : ~SameVersion(w, u)
      BY <1>6, <2>4 DEF KeptIsTrue
    <3> DEFINE before == Kept(availability_[h], q, u)
    <3>1. /\ before # "UNKNOWN" => Asks(h, q) /\ Fits(h, u)
          /\ before \in {"AVAILABLE", "OFFERED"} => \E w \in available_[q] : SameVersion(w, u) /\ w.state = before
      BY <2>1 DEF KeptIsTrue
    <3> HIDE DEF before
    <3>2. CASE SameVersion(u, v)
      <4>1. Fits(h, u) <=> Fits(h, v)
        BY <3>2 DEF Fits, SameVersion, MinorFits
      <4>2. before = Kept(availability_[h], p, v)
        BY <2>4, <3>2 DEF before, Kept, get_availability_state, SameVersion
      <4>3. CASE h \in Changed
        <5>1. Kept(availability_'[h], q, u) = state
          BY <2>2, <2>4, <3>2, <4>3
        <5> QED
          BY <1>5, <1>8, <2>4, <3>2, <4>1, <4>3, <5>1 DEF SameVersion
      <4>4. CASE h \notin Changed
        <5>1. Kept(availability_'[h], q, u) = before
          BY <2>2, <4>4 DEF before
        <5>2. before # "UNKNOWN" => before = state
          BY <1>8, <2>4, <3>1, <4>1, <4>2, <4>4
        <5> QED
          BY <1>5, <2>4, <3>1, <3>2, <5>1, <5>2 DEF SameVersion
      <4> QED
        BY <4>3, <4>4
    <3>3. CASE ~SameVersion(u, v)
      <4>1. Kept(availability_'[h], q, u) = before
        BY <2>2, <3>3 DEF before
      <4>2. before \notin {"AVAILABLE", "OFFERED"}
        BY <1>2, <2>4, <3>1, <3>3 DEF SameVersion
      <4> QED
        BY <1>5, <3>1, <3>3, <4>1, <4>2 DEF SameVersion
    <3> QED
      BY <3>2, <3>3
  <2> QED
    BY <2>3, <2>4
<1>12. ASSUME NEW h \in Registered, NEW q \in Instances, <<h, q>> \notin displaced
       PROVE  /\ Available(h, q)' => told'[h][q] = "AVAILABLE"
              /\ told'[h][q] = "AVAILABLE" => Available(h, q)' \/ <<h, q>> \in misled'
  <2>1. /\ Available(h, q) => told[h][q] = "AVAILABLE"
        /\ told[h][q] = "AVAILABLE" => Available(h, q) \/ <<h, q>> \in misled
    BY <1>12 DEF ReportInv, ReportsTrue
  <2>2. Available(h, q)' <=> \E w \in available_'[q] : w.state = "AVAILABLE" /\ Asks(h, q) /\ Fits(h, w)
    BY DEF Available, Fits
  <2>3. Available(h, q) <=> \E w \in available_[q] : w.state = "AVAILABLE" /\ Asks(h, q) /\ Fits(h, w)
    BY DEF Available, Fits
  <2>4. CASE q # p
    <3>1. told'[h][q] = told[h][q]
      BY <1>1, <1>7, <2>4 DEF ReportShape
    <3>2. <<h, q>> \in misled => <<h, q>> \in misled'
      BY <1>7, <2>4
    <3> QED
      BY <1>6, <2>1, <2>2, <2>3, <2>4, <3>1, <3>2
  <2>5. CASE q = p /\ h \in Changed
    <3>1. told'[h][q] = state
      BY <1>1, <1>7, <2>5 DEF ReportShape
    <3>2. Asks(h, q) /\ Fits(h, v)
      BY <1>8, <2>5
    <3>3. \A w \in now : Fits(h, w)
      BY <1>5, <3>2 DEF Fits, SameVersion, MinorFits
    <3> QED
      BY <1>5, <1>6, <2>2, <2>5, <3>1, <3>2, <3>3
  <2>6. CASE q = p /\ h \notin Changed
    <3>1. told'[h][q] = told[h][q] /\ (<<h, q>> \in misled => <<h, q>> \in misled')
      BY <1>7, <2>6
    <3>2. ~Available(h, q) /\ ~Available(h, q)'
      <4>1. CASE ~(Asks(h, p) /\ Fits(h, v))
        <5>1. \A w \in available_[p] \cup now : Fits(h, w) => Fits(h, v)
          BY <1>2, <1>5 DEF Fits, SameVersion, MinorFits
        <5> QED
          BY <1>6, <2>2, <2>3, <2>6, <4>1, <5>1
      <4>2. CASE Asks(h, p) /\ Fits(h, v)
        <5>1. Kept(availability_[h], p, v) = state
          BY <1>8, <2>6, <4>2
        <5>2. KeptIsTrue(h, availability_[h], p, available_[p])
          BY <1>12, <2>6 DEF ReportInv
        <5>3. state = "UNAVAILABLE" /\ available_[p] = {}
          BY <1>1, <1>2, <1>3, <5>1, <5>2 DEF KeptIsTrue
        <5> QED
          BY <1>5, <1>6, <2>2, <2>3, <2>6, <5>3
      <4> QED
        BY <4>1, <4>2
    <3> QED
      BY <2>1, <3>1, <3>2
  <2> QED
    BY <2>4, <2>5, <2>6
<1>13. ReportsTrue'
  BY <1>7, <1>9, <1>12 DEF ReportsTrue
<1> QED
  BY <1>6, <1>7, <1>9, <1>10, <1>11, <1>13 DEF ReportInv

\* What register_availability_handler() says of an instance that is there for the
\* handler, with wildcards or without.
LEMMA FirstReportTrue ==
    ASSUME OneVersion, NEW h, NEW q \in Instances, Available(h, q)
    PROVE  FirstReport(h, q) = "AVAILABLE"
<1>1. PICK w \in available_[q] : /\ w.state = "AVAILABLE" /\ Asks(h, q)
                                 /\ h.major \in {w.major, ANY} /\ MinorFits(h.minor, w)
  BY DEF Available
<1>2. CASE Wildcard(h)
  <2> DEFINE seen == {p \in Instances : p.service = q.service /\ available_[p] # {}}
             fitting == {p \in seen : \E v \in available_[p] : v.state = "AVAILABLE" /\ MinorFits(h.minor, v)}
  <2>1. q \in fitting /\ q.service \in {p.service : p \in Instances} /\ h.service \in {q.service, ANY}
    BY <1>1 DEF Asks
  <2>2. q \in are_available_unlocked(h)
    BY <2>1, SMTT(30) DEF are_available_unlocked
  <2> QED
    BY <1>2, <2>2 DEF FirstReport
<1>3. CASE ~Wildcard(h)
  <2>1. q = [service |-> q.service, instance |-> q.instance]
    BY AvailabilityAssumption
  <2>2. q = Place(h)
    BY <1>1, <1>3, <2>1 DEF Asks, Wildcard, Place
  <2>3. is_available_unlocked(q, h.major, h.minor) = "AVAILABLE"
    BY <1>1, FoundState
  <2> QED
    BY <1>3, <2>2, <2>3 DEF FirstReport
<1> QED
  BY <1>2, <1>3

\* register_availability_handler: the handler is told how things are, and the state
\* it keeps for its own version is true of that version.
LEMMA RegisterStep ==
    ASSUME ReportInv, NEW h \in handlers, register_availability_handler(h)
    PROVE  ReportInv'
<1> DEFINE first == [q \in Instances \cup {Place(h)} |-> FirstReport(h, q)]
           states == IF Wildcard(h) THEN <<>>
                     ELSE set_availability_state(<<>>, Place(h), h, FirstReport(h, Place(h)))
<1>0. OneVersion
  BY DEF ReportInv
<1>1. /\ handlers' = handlers /\ available_' = available_ /\ OneVersion /\ ReportShape
      /\ availability_' = [g \in Registered \cup {h} |-> IF g = h THEN states ELSE availability_[g]]
      /\ told' = [g \in Registered \cup {h} |-> IF g = h THEN first ELSE told[g]]
  BY DEF ReportInv, register_availability_handler
<1>2. /\ \A g, q : g # h /\ <<g, q>> \in misled => <<g, q>> \in misled'
      /\ \A g, q : g # h /\ <<g, q>> \in displaced => <<g, q>> \in displaced'
      /\ \A q \in Instances : FirstReport(h, q) = "AVAILABLE" /\ ~Available(h, q) => <<h, q>> \in misled'
      /\ \A q \in Instances : q = Place(h) /\ Displaces(q, h) => <<h, q>> \in displaced'
  BY DEF register_availability_handler
<1>3. /\ h.major \in Nat \cup {ANY} /\ h.minor \in Nat \cup {ANY}
      /\ first = [q \in DOMAIN first |-> first[q]] /\ Instances \subseteq DOMAIN first
  BY <1>1, AvailabilityAssumption DEF ReportShape
<1>4. \A q \in Instances : first[q] = FirstReport(h, q)
  OBVIOUS
<1> HIDE DEF first
<1>5. ASSUME NEW q \in Instances, ~(q = Place(h) /\ Displaces(q, h))
      PROVE  KeptIsTrue(h, states, q, available_[q])
  <2> SUFFICES ASSUME NEW u \in VersionType
               PROVE  LET kept == Kept(states, q, u)
                      IN  /\ kept # "UNKNOWN" => Asks(h, q) /\ Fits(h, u)
                          /\ kept \in {"AVAILABLE", "OFFERED"} =>
                               \E w \in available_[q] : SameVersion(w, u) /\ w.state = kept
                          /\ kept = "UNAVAILABLE" => \A w \in available_[q] : ~SameVersion(w, u)
    BY DEF KeptIsTrue
  <2>1. Kept(<<>>, q, u) = "UNKNOWN"
    BY DEF Kept, get_availability_state
  <2>2. CASE Wildcard(h)
    BY <2>1, <2>2
  <2>3. CASE ~Wildcard(h)
    <3>0. states = set_availability_state(<<>>, Place(h), h, FirstReport(h, Place(h)))
      BY <2>3
    <3> HIDE DEF states
    <3>1. Kept(states, q, u) = IF <<q, u.major, u.minor>> = <<Place(h), h.major, h.minor>>
                               THEN FirstReport(h, Place(h)) ELSE Kept(<<>>, q, u)
      BY <3>0, StateSet
    <3>2. CASE q = Place(h) /\ SameVersion(u, h)
      <4>1. Kept(states, q, u) = is_available_unlocked(q, h.major, h.minor)
        BY <2>3, <3>1, <3>2 DEF FirstReport, SameVersion
      <4>2. u.major \in Nat /\ u.minor \in Nat
        BY DEF VersionType
      <4>3. Asks(h, q) /\ Fits(h, u)
        BY <3>2, <4>2 DEF Asks, Place, Fits, SameVersion, MinorFits
      <4>4. \A w \in available_[q] : SameVersion(w, u)
        BY <1>5, <3>2, <4>2, AvailabilityAssumption DEF Displaces, SameVersion
      <4>5. is_available_unlocked(q, h.major, h.minor) # "UNKNOWN" =>
               \E w \in available_[q] : is_available_unlocked(q, h.major, h.minor) = w.state
        BY <1>0, FoundState
      <4>6. \A w \in available_[q] : w.state \in {"AVAILABLE", "OFFERED"}
        BY <1>1 DEF OneVersion, StateType
      <4> QED
        BY <4>1, <4>3, <4>4, <4>5, <4>6
    <3>3. CASE ~(q = Place(h) /\ SameVersion(u, h))
      BY <2>1, <3>1, <3>3 DEF SameVersion
    <3> QED
      BY <3>2, <3>3
  <2> QED
    BY <2>2, <2>3
<1> HIDE DEF states
<1>6. Registered' = Registered \cup {h} /\ OneVersion'
  BY <1>1 DEF Registered, OneVersion
<1>7. ReportShape'
  <2>1. \A g \in Registered' : /\ told'[g] = [q \in DOMAIN told'[g] |-> told'[g][q]]
                                /\ Instances \subseteq DOMAIN told'[g]
    BY <1>1, <1>3, <1>6 DEF ReportShape
  <2>2. /\ availability_' = [g \in Registered' |-> availability_'[g]]
        /\ told' = [g \in Registered' |-> told'[g]]
    BY <1>1, <1>6
  <2> QED
    BY <1>1, <1>6, <2>1, <2>2 DEF ReportShape
<1>8. ASSUME NEW g \in Registered', NEW q \in Instances, <<g, q>> \notin displaced'
      PROVE  /\ Available(g, q)' => told'[g][q] = "AVAILABLE"
             /\ told'[g][q] = "AVAILABLE" => Available(g, q)' \/ <<g, q>> \in misled'
             /\ KeptIsTrue(g, availability_'[g], q, available_'[q])
  <2>1. Available(g, q)' <=> Available(g, q)
    BY <1>1 DEF Available
  <2>2. CASE g = h
    <3>1. told'[g][q] = FirstReport(h, q) /\ availability_'[g] = states
      BY <1>1, <1>4, <2>2
    <3>2. Available(h, q) => FirstReport(h, q) = "AVAILABLE"
      BY <1>1, FirstReportTrue
    <3> QED
      BY <1>1, <1>2, <1>5, <1>8, <2>1, <2>2, <3>1, <3>2
  <2>3. CASE g # h
    <3>1. g \in Registered /\ told'[g] = told[g] /\ availability_'[g] = availability_[g]
      BY <1>1, <1>6, <2>3
    <3>2. <<g, q>> \notin displaced
      BY <1>2, <1>8, <2>3
    <3> QED
      BY <1>1, <1>2, <2>1, <2>3, <3>1, <3>2 DEF ReportInv, ReportsTrue
  <2> QED
    BY <2>2, <2>3
<1> QED
  BY <1>6, <1>7, <1>8 DEF ReportInv, ReportsTrue

\* unregister_availability_handler takes what was kept for the handler with it.
LEMMA UnregisterStep ==
    ASSUME ReportInv, NEW h, unregister_availability_handler(h)
    PROVE  ReportInv'
<1>1. /\ handlers' = handlers /\ available_' = available_ /\ OneVersion /\ ReportShape
      /\ availability_' = [g \in Registered \ {h} |-> availability_[g]]
      /\ told' = [g \in Registered \ {h} |-> told[g]]
      /\ \A g, q : g # h /\ <<g, q>> \in misled => <<g, q>> \in misled'
      /\ \A g, q : g # h /\ <<g, q>> \in displaced => <<g, q>> \in displaced'
  BY DEF ReportInv, unregister_availability_handler
<1>2. Registered' = Registered \ {h} /\ OneVersion'
  BY <1>1 DEF Registered, OneVersion
<1>3. ReportShape'
  BY <1>1, <1>2 DEF ReportShape
<1>4. ASSUME NEW g \in Registered', NEW q \in Instances, <<g, q>> \notin displaced'
      PROVE  /\ Available(g, q)' => told'[g][q] = "AVAILABLE"
             /\ told'[g][q] = "AVAILABLE" => Available(g, q)' \/ <<g, q>> \in misled'
             /\ KeptIsTrue(g, availability_'[g], q, available_'[q])
  <2>1. Available(g, q)' <=> Available(g, q)
    BY <1>1 DEF Available
  <2>2. /\ g \in Registered /\ g # h /\ told'[g] = told[g] /\ availability_'[g] = availability_[g]
        /\ <<g, q>> \notin displaced
    BY <1>1, <1>2, <1>4
  <2> QED
    BY <1>1, <2>1, <2>2 DEF ReportInv, ReportsTrue
<1> QED
  BY <1>2, <1>3, <1>4 DEF ReportInv, ReportsTrue

\* request_service: the handler that is told of the instance asks for the version
\* that is offered, unless the state is kept for another one.
LEMMA RequestStep ==
    ASSUME ReportInv, NEW p \in Instances, NEW v \in Versions \cup {[major |-> ANY, minor |-> ANY]},
           request_service(p, v)
    PROVE  ReportInv'
<1> DEFINE state == is_available_unlocked(p, v.major, v.minor)
<1>1. PICK h \in HandlerFor(p, v) :
         /\ state # "UNKNOWN"
         /\ availability_' = [availability_ EXCEPT ![h] = set_availability_state(availability_[h], p, v, state)]
         /\ told' = [told EXCEPT ![h] = [told[h] EXCEPT ![p] = state]]
         /\ misled' = misled \ {<<h, p>>}
         /\ displaced' = displaced \cup {<<h, q>> : q \in {q \in {p} : Displaces(q, v)}}
         /\ handlers' = handlers /\ available_' = available_
  BY DEF request_service
<1>2. OneVersion /\ ReportShape
  BY DEF ReportInv
<1>3. PICK w \in available_[p] : state = w.state
  BY <1>1, <1>2, FoundState
<1>4. w \in StateType /\ \A u \in available_[p] : u = w
  BY <1>2 DEF OneVersion
<1>5. /\ h \in Registered /\ Place(h) = p
      /\ h.major \in {v.major, ANY} /\ h.minor \in {v.minor, ANY}
  BY DEF HandlerFor
<1> HIDE DEF state
<1>6. OneVersion' /\ Registered' = Registered
  BY <1>1, <1>2 DEF OneVersion, Registered
<1>7. /\ told'[h] = [told[h] EXCEPT ![p] = state]
      /\ availability_'[h] = set_availability_state(availability_[h], p, v, state)
      /\ \A g \in Registered : g # h => told'[g] = told[g] /\ availability_'[g] = availability_[g]
  BY <1>1, <1>2, <1>5 DEF ReportShape
<1>8. ReportShape'
  <2>1. \A g \in Registered : /\ told'[g] = [q \in DOMAIN told'[g] |-> told'[g][q]]
                               /\ Instances \subseteq DOMAIN told'[g]
    BY <1>2, <1>5, <1>7 DEF ReportShape
  <2>2. /\ availability_' = [g \in Registered |-> availability_'[g]]
        /\ told' = [g \in Registered |-> told'[g]]
    BY <1>1, <1>2, <1>5 DEF ReportShape
  <2> QED
    BY <1>1, <1>2, <1>6, <2>1, <2>2 DEF ReportShape
<1>9. ASSUME <<h, p>> \notin displaced'
      PROVE  /\ Fits(h, w) /\ Asks(h, p)
             /\ \A u \in VersionType : SameVersion(u, v) => SameVersion(w, u) /\ Fits(h, u)
  <2>1. Asks(h, p)
    BY <1>5 DEF Asks, Place
  <2>2. ~Displaces(p, v)
    BY <1>1, <1>9
  <2>3. w.major \in Nat /\ w.minor \in Nat
    BY <1>4 DEF StateType
  <2>4. CASE v \in Versions
    <3>1. v.major \in Nat /\ v.minor \in Nat
      BY <2>4, AvailabilityAssumption
    <3>2. SameVersion(w, v)
      BY <1>3, <2>2, <3>1, AvailabilityAssumption DEF Displaces, SameVersion
    <3>3. Fits(h, w)
      BY <1>5, <2>3, <3>1, <3>2 DEF SameVersion, Fits, MinorFits
    <3>4. \A u \in VersionType : SameVersion(u, v) => SameVersion(w, u) /\ Fits(h, u)
      BY <1>5, <3>1, <3>2 DEF SameVersion, Fits, MinorFits
    <3> QED
      BY <2>1, <3>3, <3>4
  <2>5. CASE v = [major |-> ANY, minor |-> ANY]
    <3>1. Fits(h, w)
      BY <1>5, <2>5 DEF Fits, MinorFits
    <3>2. \A u \in VersionType : ~SameVersion(u, v)
      BY <2>5, AvailabilityAssumption DEF VersionType, SameVersion
    <3> QED
      BY <2>1, <3>1, <3>2
  <2> QED
    BY <2>4, <2>5
<1>10. ASSUME NEW q, NEW u
       PROVE  Kept(availability_'[h], q, u) = IF <<q, u.major, u.minor>> = <<p, v.major, v.minor>>
                                              THEN state ELSE Kept(availability_[h], q, u)
  <2>1. availability_'[h] = set_availability_state(availability_[h], p, v, state)
    BY <1>7
  <2> QED
    BY <2>1 DEF Kept, get_availability_state, set_availability_state
<1>11. ASSUME NEW g \in Registered, NEW q \in Instances, <<g, q>> \notin displaced'
       PROVE  /\ Available(g, q)' => told'[g][q] = "AVAILABLE"
              /\ told'[g][q] = "AVAILABLE" => Available(g, q)' \/ <<g, q>> \in misled'
              /\ KeptIsTrue(g, availability_'[g], q, available_'[q])
  <2>1. (Available(g, q)' <=> Available(g, q)) /\ available_'[q] = available_[q]
    BY <1>1 DEF Available
  <2>2. <<g, q>> \notin displaced
    BY <1>1, <1>11
  <2>3. /\ Available(g, q) => told[g][q] = "AVAILABLE"
        /\ told[g][q] = "AVAILABLE" => Available(g, q) \/ <<g, q>> \in misled
        /\ KeptIsTrue(g, availability_[g], q, available_[q])
    BY <2>2 DEF ReportInv, ReportsTrue
  <2>4. CASE g # h
    <3>1. <<g, q>> \in misled => <<g, q>> \in misled'
      BY <1>1, <2>4
    <3> QED
      BY <1>7, <2>1, <2>3, <2>4, <3>1
  <2>5. CASE g = h /\ q # p
    <3>1. told'[g][q] = told[g][q] /\ (<<g, q>> \in misled => <<g, q>> \in misled')
      BY <1>1, <1>2, <1>7, <2>5 DEF ReportShape
    <3>2. \A u : Kept(availability_'[g], q, u) = Kept(availability_[g], q, u)
      BY <1>10, <2>5
    <3> QED
      BY <2>1, <2>3, <3>1, <3>2 DEF KeptIsTrue
  <2>6. CASE g = h /\ q = p
    <3>1. told'[g][q] = state
      BY <1>2, <1>7, <2>6 DEF ReportShape
    <3>2. /\ Fits(h, w) /\ Asks(h, p)
          /\ \A u \in VersionType : SameVersion(u, v) => SameVersion(w, u) /\ Fits(h, u)
      BY <1>9, <1>11, <2>6
    <3>3. Available(g, q) <=> state = "AVAILABLE"
      BY <1>3, <1>4, <2>6, <3>2 DEF Available, Fits
    <3>4. KeptIsTrue(g, availability_'[g], q, available_'[q])
      <4> SUFFICES ASSUME NEW u \in VersionType
                   PROVE  LET kept == Kept(availability_'[g], q, u)
                          IN  /\ kept # "UNKNOWN" => Asks(h, p) /\ Fits(h, u)
                              /\ kept \in {"AVAILABLE", "OFFERED"} =>
                                   \E x \in available_[p] : SameVersion(x, u) /\ x.state = kept
                              /\ kept = "UNAVAILABLE" => \A x \in available_[p] : ~SameVersion(x, u)
        BY <2>1, <2>6 DEF KeptIsTrue
      <4>1. CASE SameVersion(u, v)
        <5>1. Kept(availability_'[g], q, u) = state
          BY <1>10, <2>6, <4>1 DEF SameVersion
        <5>2. state \in {"AVAILABLE", "OFFERED"}
          BY <1>3, <1>4 DEF StateType
        <5> QED
          BY <1>3, <3>2, <4>1, <5>1, <5>2
      <4>2. CASE ~SameVersion(u, v)
        <5>1. Kept(availability_'[g], q, u) = Kept(availability_[g], q, u)
          BY <1>10, <2>6, <4>2 DEF SameVersion
        <5> QED
          BY <2>3, <2>6, <5>1 DEF KeptIsTrue
      <4> QED
        BY <4>1, <4>2
    <3> QED
      BY <2>1, <3>1, <3>3, <3>4
  <2> QED
    BY <2>4, <2>5, <2>6
<1> QED
  BY <1>6, <1>8, <1>11 DEF ReportInv, ReportsTrue

\* Nothing is registered and nothing is offered at first.
LEMMA ReportInit ==
    ASSUME AvailabilityInit
    PROVE  ReportInv
<1>1. Registered = {}
  BY DEF AvailabilityInit, Registered
<1>2. OneVersion
  BY DEF AvailabilityInit, OneVersion
<1>3. /\ availability_ = [h \in Registered |-> availability_[h]]
      /\ told = [h \in Registered |-> told[h]]
  BY <1>1 DEF AvailabilityInit
<1>4. ReportShape
  BY <1>1, <1>3 DEF AvailabilityInit, ReportShape
<1> QED
  BY <1>1, <1>2, <1>4 DEF ReportInv, ReportsTrue

\* The availability handlers of an application, for any instances, versions and
\* wildcards: after any order of on_availability, request_service and registrations,
\* the last report on an instance says "available" exactly when it is.
THEOREM ReportsAreTrue == AvailabilitySpec => []ReportsTrue
<1>1. AvailabilityInit => ReportInv
  BY ReportInit
<1>2. ReportInv /\ [AvailabilityNext]_availabilityVars => ReportInv'
  <2> SUFFICES ASSUME ReportInv, [AvailabilityNext]_availabilityVars
               PROVE  ReportInv'
    OBVIOUS
  <2>1. CASE UNCHANGED availabilityVars
    BY <2>1 DEF availabilityVars, ReportInv, OneVersion, ReportShape, ReportsTrue, Registered, Available
  <2>2. CASE AvailabilityNext
    BY <2>2, OnAvailabilityStep, RegisterStep, UnregisterStep, RequestStep DEF AvailabilityNext
  <2> QED
    BY <2>1, <2>2
<1>3. ReportInv => ReportsTrue
  BY DEF ReportInv
<1> QED
  BY <1>1, <1>2, <1>3, PTL DEF AvailabilitySpec
=============================================================================
