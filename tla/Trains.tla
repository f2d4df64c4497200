------------------------------- MODULE Trains -------------------------------
(***************************************************************************)
(* The message trains (nPDU) of an endpoint: client_endpoint_impl.cpp, and  *)
(* per target in server_endpoint_impl.cpp, which repeats the same code.     *)
(*                                                                          *)
(* A message enters the current train.  A train leaves when the dispatch    *)
(* timer of the endpoint fires; what leaves is appended to queue_, whose    *)
(* front the socket is writing.  Time is a small integer.  Time passes      *)
(* while a timer handler is due at most MaxLate times: the io thread is     *)
(* late by so many ticks in all.                                            *)
(***************************************************************************)
EXTENDS Naturals, Sequences, FiniteSets, Functions

CONSTANTS Configurations,    \* what may be configured: the nPDU timings of each
                             \* method, and the methods split by SOME/IP-TP
          max_message_size_, \* messages that fit into one train
          queue_limit_,      \* messages that fit into queue_
          SixHours,          \* departure of a train nobody has entered
          MaxSends, MaxSendTime, MaxLate

Methods(c) == DOMAIN c.times

Greatest(S) == CHOOSE x \in S : \A y \in S : y <= x

\* When every train that left before MaxSendTime has left and been written.
Horizon == 1 + MaxSendTime + MaxLate +
           Greatest(UNION {{c.times[m].retention + c.times[m].debounce : m \in Methods(c)} :
                             c \in Configurations})

ASSUME TrainsAssumption ==
    /\ {max_message_size_, queue_limit_, MaxSends, MaxSendTime, MaxLate} \subseteq Nat
    /\ SixHours \in Nat
    /\ \A c \in Configurations :
         /\ c.tp \subseteq Methods(c)
         /\ \A m \in Methods(c) :
              /\ c.times[m] \in [debounce : Nat, retention : Nat]
              /\ SixHours > MaxSendTime + MaxLate + c.times[m].debounce + c.times[m].retention

VARIABLES configuration_,    \* read once, when the process starts
          now,               \* std::chrono::steady_clock::now()
          train_, dispatched_trains_,
          last_departure_,   \* {} or the time of the last completed write
          dispatch_timer_,   \* {} or the time at which it expires
          due,               \* flush_cbk handlers posted by an expired timer
          queue_, queue_size_, is_sending_,
          admitted,          \* messages send() took; a message has its number
          departed,          \* their numbers, in the order they entered queue_
          late               \* ticks that passed while a handler was due

trainVars == <<configuration_, now, train_, dispatched_trains_, last_departure_,
               dispatch_timer_, due, queue_, queue_size_, is_sending_, admitted, departed,
               late>>

-----------------------------------------------------------------------------

\* train(): minimal times at their maximum, departure six hours away.
NewTrain(departure) ==
    [buffer_ |-> <<>>, minimal_debounce_time_ |-> SixHours,
     minimal_max_retention_time_ |-> SixHours, departure_ |-> departure]

\* Mutant: the buffer of the current train is kept.
ResetTimesOnly(t) == [NewTrain(now + SixHours) EXCEPT !.buffer_ = t.buffer_]

\* train::reset().
reset(t) == NewTrain(now + SixHours)

\* The set a train keeps of the methods it carries.
passengers_(t) == {t.buffer_[i].method : i \in DOMAIN t.buffer_}

\* STEPS 4.1 to 7: may the message not travel with the current train?
MustDepart(t, method, debouncing, retention) ==
    /\ t.buffer_ # <<>>
    /\ \/ method \in passengers_(t)
       \/ Len(t.buffer_) + 1 > max_message_size_
       \/ debouncing > t.minimal_max_retention_time_
       \/ now + debouncing > t.departure_
       \/ retention < t.minimal_debounce_time_

\* Mutant: held back by the retention time instead.
ScheduleByRetention(t) ==
    [t EXCEPT !.departure_ =
       IF \E l \in last_departure_ : l + t.minimal_max_retention_time_ > @
       THEN (CHOOSE l \in last_departure_ : TRUE) + t.minimal_max_retention_time_
       ELSE @]

\* STEP 8.1: a train is held back until the debounce time has passed.
schedule_train(t) ==
    [t EXCEPT !.departure_ =
       IF \E l \in last_departure_ : l + t.minimal_debounce_time_ > @
       THEN (CHOOSE l \in last_departure_ : TRUE) + t.minimal_debounce_time_
       ELSE @]

\* dispatched_trains_[departure].push_back(train): sorted, and first come first
\* served among equal departures.
Dispatch(trains, t) ==
    LET before == Cardinality({i \in DOMAIN trains : trains[i].departure_ <= t.departure_})
    IN  SubSeq(trains, 1, before) \o <<t>> \o SubSeq(trains, before + 1, Len(trains))

\* STEPS 9 to 9.2.
Enter(t, message, debouncing, retention) ==
    [buffer_ |-> Append(t.buffer_, message),
     minimal_debounce_time_ |->
        IF debouncing < t.minimal_debounce_time_ THEN debouncing ELSE t.minimal_debounce_time_,
     minimal_max_retention_time_ |->
        IF retention < t.minimal_max_retention_time_ THEN retention
        ELSE t.minimal_max_retention_time_,
     departure_ |-> t.departure_]

\* The time at which the dispatch timer of the given trains expires.
start_dispatch_timer(t, trains) ==
    LET next == IF trains # <<>> /\ Head(trains).departure_ < t.departure_
                THEN Head(trains) ELSE t
    IN  {IF next.departure_ > now THEN next.departure_ ELSE now}

check_queue_limit == queue_size_ + 1 <= queue_limit_

\* queue_train(): what is queued is written at once unless a write is running.
QueueBuffer(buffer) ==
    /\ queue_' = Append(queue_, buffer) /\ queue_size_' = queue_size_ + Len(buffer)
    /\ is_sending_' = TRUE
    /\ departed' = departed \o [i \in DOMAIN buffer |-> buffer[i].n]

-----------------------------------------------------------------------------

TrainsInit ==
    /\ configuration_ \in Configurations
    /\ now = 0
    /\ train_ = NewTrain(SixHours)
    /\ dispatched_trains_ = <<>>
    /\ last_departure_ = {} /\ dispatch_timer_ = {} /\ due = 0
    /\ queue_ = <<>> /\ queue_size_ = 0 /\ is_sending_ = FALSE
    /\ admitted = 0 /\ departed = <<>> /\ late = 0

\* client_endpoint_impl::send() of a message that needs no segmentation.
send(method) ==
    LET debouncing == configuration_.times[method].debounce
        retention  == configuration_.times[method].retention
        message    == [n |-> admitted + 1, method |-> method, at |-> now]
        leaves     == MustDepart(train_, method, debouncing, retention)
        trains     == IF leaves THEN Dispatch(dispatched_trains_, schedule_train(train_))
                      ELSE dispatched_trains_
        \* STEPS 4, 7 and 8: the train that is entered, and its departure.
        entered    == IF leaves \/ train_.buffer_ = <<>>
                      THEN [(IF leaves THEN NewTrain(0) ELSE train_)
                              EXCEPT !.departure_ = now + retention]
                      ELSE [train_ EXCEPT !.departure_ =
                              IF now + retention < @ THEN now + retention ELSE @]
        boarded    == Enter(entered, message, debouncing, retention)
    IN  /\ admitted < MaxSends /\ now <= MaxSendTime
        /\ method \notin configuration_.tp
        /\ check_queue_limit
        /\ train_' = boarded
        /\ dispatched_trains_' = trains
        /\ dispatch_timer_' = start_dispatch_timer(boarded, trains)
        /\ admitted' = admitted + 1
        /\ UNCHANGED <<configuration_, now, last_departure_, due, queue_, queue_size_,
                       is_sending_, departed, late>>

\* send() of a message that is split: segment_message() and send_segments().
\* The segments go to queue_ at once; the waiting train is scheduled, and
\* the dispatch timer is left as it is.
send_segments(method) ==
    LET debouncing == configuration_.times[method].debounce
        retention  == configuration_.times[method].retention
        message    == [n |-> admitted + 1, method |-> method, at |-> now]
        updated    == [Enter(train_, message, debouncing, retention) EXCEPT
                         !.buffer_ = train_.buffer_]
    IN  /\ admitted < MaxSends /\ now <= MaxSendTime
        /\ method \in configuration_.tp
        /\ check_queue_limit
        /\ IF train_.buffer_ = <<>>
           THEN train_' = updated /\ UNCHANGED dispatched_trains_
           ELSE /\ dispatched_trains_' = Dispatch(dispatched_trains_, schedule_train(updated))
                /\ train_' = NewTrain(now + retention)
        /\ QueueBuffer(<<message>>)
        /\ admitted' = admitted + 1
        /\ UNCHANGED <<configuration_, now, last_departure_, dispatch_timer_, due, late>>

\* The dispatch timer expires: its handler is posted, and a later cancel of
\* the timer does not take it back.
Expire ==
    /\ \E t \in dispatch_timer_ : t <= now
    /\ dispatch_timer_' = {}
    /\ due' = due + 1
    /\ UNCHANGED <<configuration_, now, train_, dispatched_trains_, last_departure_,
                   queue_, queue_size_, is_sending_, admitted, departed, late>>

\* flush(): no dispatched train is due before or with the current one.
is_current_train ==
    dispatched_trains_ = <<>> \/ Head(dispatched_trains_).departure_ > train_.departure_

\* flush_cbk() without an error, and flush().
flush ==
    LET current == is_current_train
        leaving == IF current THEN train_ ELSE Head(dispatched_trains_)
        trains  == IF current THEN dispatched_trains_ ELSE Tail(dispatched_trains_)
        stays   == IF current /\ leaving.buffer_ # <<>> THEN reset(train_) ELSE train_
    IN  /\ due > 0
        /\ due' = due - 1
        /\ dispatched_trains_' = trains
        /\ train_' = stays
        /\ IF leaving.buffer_ # <<>> THEN QueueBuffer(leaving.buffer_)
           ELSE UNCHANGED <<queue_, queue_size_, is_sending_, departed>>
        /\ dispatch_timer_' = IF current /\ trains = <<>> THEN dispatch_timer_
                              ELSE start_dispatch_timer(stays, trains)
        /\ UNCHANGED <<configuration_, now, last_departure_, admitted, late>>

\* Mutant: the next buffer waits for the next train.
SentOnce ==
    /\ is_sending_
    /\ queue_' = Tail(queue_) /\ queue_size_' = queue_size_ - Len(Head(queue_))
    /\ last_departure_' = {now}
    /\ is_sending_' = FALSE
    /\ UNCHANGED <<configuration_, now, train_, dispatched_trains_, dispatch_timer_, due,
                   admitted, departed, late>>

\* send_cbk() without an error: the written buffer is taken off the queue and
\* the next one is written.
Sent ==
    /\ is_sending_
    /\ queue_' = Tail(queue_) /\ queue_size_' = queue_size_ - Len(Head(queue_))
    /\ last_departure_' = {now}
    /\ is_sending_' = (Tail(queue_) # <<>>)
    /\ UNCHANGED <<configuration_, now, train_, dispatched_trains_, dispatch_timer_, due,
                   admitted, departed, late>>

Lagging == due > 0 \/ \E t \in dispatch_timer_ : t <= now

Tick ==
    /\ now < Horizon
    /\ Lagging => late < MaxLate
    /\ now' = now + 1
    /\ late' = IF Lagging THEN late + 1 ELSE late
    /\ UNCHANGED <<configuration_, train_, dispatched_trains_, last_departure_,
                   dispatch_timer_, due, queue_, queue_size_, is_sending_, admitted, departed>>

TrainsNext ==
    \/ \E method \in Methods(configuration_) : send(method) \/ send_segments(method)
    \/ Expire \/ flush \/ Sent \/ Tick

TrainsSpec == TrainsInit /\ [][TrainsNext]_trainVars

\* The io threads run timers and completions, and time passes.
TrainsFairness ==
    /\ WF_trainVars(Expire) /\ WF_trainVars(flush) /\ WF_trainVars(Sent) /\ WF_trainVars(Tick)

-----------------------------------------------------------------------------

Waiting == Range(train_.buffer_) \cup
           UNION {Range(dispatched_trains_[i].buffer_) : i \in DOMAIN dispatched_trains_}

\* Every message send() accepted is in exactly one place, and no message is
\* ever queued twice, whatever trains are merged, split, reset or rescheduled;
\* a dispatched train has messages, and the earliest one comes first.
EachTravelsOnce ==
    /\ Len(departed) = Cardinality(Range(departed))
    /\ Range(departed) \cap {m.n : m \in Waiting} = {}
    /\ Range(departed) \cup {m.n : m \in Waiting} = 1..admitted
    /\ \A i, j \in DOMAIN dispatched_trains_ :
         /\ dispatched_trains_[i].buffer_ # <<>>
         /\ i < j => dispatched_trains_[i].departure_ <= dispatched_trains_[j].departure_

Uniform == \A m1, m2 \in Methods(configuration_) :
             /\ configuration_.times[m1] = configuration_.times[m2]
             /\ configuration_.times[m1].debounce <= configuration_.times[m1].retention

\* Segmented messages beside methods with other timings are left out: there the
\* dispatch timer may spin on an empty train while others wait, so that
\* EveryTrainDeparts fails, and RetentionBound counts the spinning as lag.
WellTimed == configuration_.tp = {} \/ Uniform

\* How long a message is buffered: no longer than its retention time, the
\* debounce time schedule_train() may add once and the lag of the io thread.
RetentionBound ==
    WellTimed =>
      \A m \in Waiting :
        now <= m.at + configuration_.times[m.method].retention
                    + configuration_.times[m.method].debounce + late

\* Every accepted message is eventually written: no train is left in the
\* station while the dispatch timer spins on an empty one, and the end of one
\* write starts the next.
EveryTrainDeparts == <>[](Waiting = {} /\ queue_ = <<>>)

=============================================================================
