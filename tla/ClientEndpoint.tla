--------------------------- MODULE ClientEndpoint ---------------------------
(***************************************************************************)
(* A TCP client endpoint (client_endpoint_impl, tcp_client_endpoint_impl): *)
(* its queue, its connection and its timers.                               *)
(*                                                                         *)
(* Completions of asynchronous operations and dispatched functions run one *)
(* after the other on strand_, in the order they were posted; a dispatch   *)
(* from the strand runs at once.  The handlers of the timers run on any    *)
(* thread, so they interleave with the strand (due).  Every handler is one *)
(* step.  A write that finds its socket still connecting completes after   *)
(* the connect does.  stale marks, for the properties only, the completion *)
(* of an operation whose socket was closed since.  The framing of what is  *)
(* received is reduced to whether the stream is whole or broken; the two   *)
(* returns of receive_cbk that end reading for good are left out.          *)
(***************************************************************************)
EXTENDS Naturals, Sequences

CONSTANTS
    MaxMessages,             \* bound on the messages queued
    MaxFaults,               \* bound on failed connects, lost connections, broken streams
    MaxRestarts,             \* bound on restarts from outside
    tcp_restart_aborts_max_

ASSUME EndpointAssumption ==
    /\ MaxMessages \in Nat /\ MaxFaults \in Nat /\ MaxRestarts \in Nat
    /\ tcp_restart_aborts_max_ \in Nat

VARIABLES
    ep,         \* the endpoint
    accepted,   \* messages queued so far; a message is its number
    delivered,  \* the last message the peer was sent
    faults, restarts,
    overtaken,  \* a stale completion was taken for one of the current socket
    unaccounted \* a message was written that is not the front of the queue

endpointVars == <<ep, accepted, delivered, faults, restarts, overtaken, unaccounted>>

Errors == {"ok", "aborted", "error"}

Handlers ==
    [op : {"connect", "close"}]
    \cup [op : {"connected", "sent"}, err : Errors, stale : BOOLEAN]
    \cup [op : {"connect_cbk"}, err : {"error"}]
    \cup [op : {"received"}, err : {"ok", "eof", "broken"}]
    \cup [op : {"restart"}, force : BOOLEAN]
    \cup [op : {"send_queued"}, entry : 1..MaxMessages]

TimerHandlers == {"wait_connect", "wait_connecting", "sent_aborted", "sent_timeout", "established"}

Endpoints ==
    [state_ : {"CLOSED", "CONNECTING", "CONNECTED", "ESTABLISHED"},
     open : BOOLEAN,                                \* socket_->is_open()
     link : {"none", "connecting", "up", "dead"},   \* what the socket is connected to
     writes : Seq(1..MaxMessages),                  \* async_writes outstanding
     reads : Nat,                                   \* async_receives outstanding
     queue_ : Seq(1..MaxMessages),
     is_sending_ : BOOLEAN, was_not_connected_ : BOOLEAN, sending_blocked_ : BOOLEAN,
     aborted_restart_count_ : 0..tcp_restart_aborts_max_,
     connect_timer_ : BOOLEAN, connecting_timer_ : BOOLEAN, sent_timer_ : BOOLEAN,
     due : SUBSET TimerHandlers,                    \* expired, the handler not yet run
     strand_ : Seq(Handlers),
     available : BOOLEAN]                           \* what the host was told last

\* The fields of the endpoint have the types of their declarations, and a restart
\* is aborted at most tcp_restart_aborts_max_ times in a row.
EndpointTypeOK ==
    /\ ep \in Endpoints
    /\ accepted \in 0..MaxMessages /\ delivered \in 0..MaxMessages
    /\ faults \in 0..MaxFaults /\ restarts \in 0..MaxRestarts /\ overtaken \in BOOLEAN
    /\ unaccounted \in BOOLEAN

Post(e, h) == [e EXCEPT !.strand_ = Append(@, h)]

Completion(op, ok) == [op |-> op, err |-> IF ok THEN "ok" ELSE "error", stale |-> FALSE]

-----------------------------------------------------------------------------
(* The parts of the handlers                                               *)

\* Closing a socket completes what is outstanding on it as aborted.  An aborted
\* receive_cbk does nothing.
shutdown_and_close_socket(e) ==
    LET aborted(op, n) == [i \in 1..n |-> [op |-> op, err |-> "aborted", stale |-> TRUE]]
        Age(h) == IF h.op \in {"connected", "sent"} THEN [h EXCEPT !.stale = TRUE] ELSE h
    IN  IF e.open
        THEN [e EXCEPT !.state_ = "CLOSED", !.open = FALSE, !.link = "none",
                       !.writes = <<>>, !.reads = 0,
                       !.strand_ = [i \in DOMAIN @ |-> Age(@[i])]
                                     \o aborted("connected", IF e.link = "connecting" THEN 1 ELSE 0)
                                     \o aborted("sent", Len(e.writes))]
        ELSE [e EXCEPT !.state_ = "CLOSED"]

\* Mutant: is_sending_ stays set.
SendAndForget(e, entry) ==
    IF e.open
    THEN [e EXCEPT !.writes = Append(@, entry)]
    ELSE [e EXCEPT !.was_not_connected_ = TRUE]

send_queued(e, entry) ==
    IF e.open
    THEN [e EXCEPT !.writes = Append(@, entry)]
    ELSE [e EXCEPT !.was_not_connected_ = TRUE, !.is_sending_ = FALSE]

receive(e) == IF e.open THEN [e EXCEPT !.reads = @ + 1] ELSE e

start_connect_timer(e) == [e EXCEPT !.connect_timer_ = TRUE]

\* Waiting anew completes an earlier wait as aborted.
CancelSentTimer(e) ==
    IF e.sent_timer_
    THEN [e EXCEPT !.sent_timer_ = FALSE, !.due = @ \cup {"sent_aborted"}]
    ELSE e

\* Keeps the connection attempt running if it is neither old nor aborted too often.
RestartIsAborted(e, force, late) ==
    /\ ~force /\ e.state_ = "CONNECTING"
    /\ e.aborted_restart_count_ < tcp_restart_aborts_max_ /\ ~late

restart(e, force, late) ==
    IF RestartIsAborted(e, force, late)
    THEN [e EXCEPT !.aborted_restart_count_ = @ + 1]
    ELSE start_connect_timer([shutdown_and_close_socket(e) EXCEPT
            !.state_ = "CONNECTING", !.was_not_connected_ = TRUE,
            !.queue_ = <<>>, !.is_sending_ = FALSE])

on_connect(e) ==
    IF e.state_ = "ESTABLISHED" THEN e
    ELSE [e EXCEPT !.state_ = IF e.open THEN "CONNECTED" ELSE "CLOSED",
                   !.available = TRUE, !.due = @ \cup {"established"}]

on_disconnect(e) == [e EXCEPT !.available = FALSE]

\* Mutant: the check of the socket is the wrong way round.
SetEstablishedIfClosed(e) ==
    IF e.state_ = "CONNECTING" THEN e
    ELSE [e EXCEPT !.state_ = IF e.open THEN "CLOSED" ELSE "ESTABLISHED"]

set_established(e) ==
    IF e.state_ = "CONNECTING" THEN e
    ELSE [e EXCEPT !.state_ = IF e.open THEN "ESTABLISHED" ELSE "CLOSED"]

\* The front of the queue that a closed socket held up.
Resume(e) ==
    IF ~e.was_not_connected_ THEN e
    ELSE IF e.queue_ = <<>> THEN [e EXCEPT !.was_not_connected_ = FALSE]
    ELSE send_queued([e EXCEPT !.was_not_connected_ = FALSE, !.is_sending_ = TRUE], Head(e.queue_))

connect_cbk(e, err) ==
    IF err = "aborted" \/ e.sending_blocked_
    THEN shutdown_and_close_socket(e)
    ELSE IF err = "error"
    THEN start_connect_timer(on_disconnect(shutdown_and_close_socket(e)))
    ELSE receive(on_connect(Resume([e EXCEPT !.connect_timer_ = FALSE])))

\* Only a connecting_timer_ that could still be cancelled leads to connect_cbk.
cancel_and_connect_cbk(e, err) ==
    IF e.connecting_timer_
    THEN connect_cbk([e EXCEPT !.connecting_timer_ = FALSE], err)
    ELSE e

SentOk(e) ==
    IF e.queue_ = <<>> THEN e
    ELSE LET rest == Tail(e.queue_)
         IN  IF rest = <<>>
             THEN [e EXCEPT !.queue_ = rest, !.is_sending_ = FALSE]
             ELSE send_queued([e EXCEPT !.queue_ = rest], Head(rest))

send_cbk(e0, err) ==
    LET e == CancelSentTimer(e0)
        f == [e EXCEPT !.is_sending_ = FALSE]
    IN  CASE err = "ok" -> SentOk(e)
          [] err = "aborted" -> shutdown_and_close_socket(f)
          [] err = "error" /\ e.state_ = "CONNECTING" -> f
          [] err = "error" /\ e.state_ # "CONNECTING" ->
                restart(on_disconnect(shutdown_and_close_socket(f)), TRUE, FALSE)

\* A cancelled or first call waits for a write in progress, a timeout does not.
wait_until_sent(e, timeout, onStrand) ==
    IF e.is_sending_ /\ ~timeout
    THEN [CancelSentTimer(e) EXCEPT !.sent_timer_ = TRUE]
    ELSE IF onStrand THEN restart(on_disconnect(e), TRUE, FALSE)
         ELSE Post(on_disconnect(e), [op |-> "restart", force |-> TRUE])

receive_cbk(e, err) ==
    IF err = "ok" THEN receive(e)
    ELSE IF err = "eof" /\ e.state_ = "CONNECTING" THEN e
    ELSE wait_until_sent([shutdown_and_close_socket(e) EXCEPT !.state_ = "CONNECTING"], FALSE, TRUE)

connect(e, bound) ==
    LET c == [e EXCEPT !.connecting_timer_ = TRUE, !.open = TRUE]
        d == [c EXCEPT !.state_ = "CONNECTING", !.aborted_restart_count_ = 0]
    IN  IF ~bound
        THEN Post([c EXCEPT !.connecting_timer_ = FALSE], [op |-> "connect_cbk", err |-> "error"])
        ELSE IF d.link = "none"
        THEN [d EXCEPT !.link = "connecting"]
        ELSE Post(d, Completion("connected", d.link = "up"))

\* Mutant: the train goes to the front of the queue.
QueueAtFront(e, train) ==
    LET q == [e EXCEPT !.queue_ = <<train>> \o @]
    IN  IF q.is_sending_ THEN q
        ELSE Post([q EXCEPT !.is_sending_ = TRUE], [op |-> "send_queued", entry |-> Head(q.queue_)])

queue_train(e, train) ==
    LET q == [e EXCEPT !.queue_ = Append(@, train)]
    IN  IF q.is_sending_ THEN q
        ELSE Post([q EXCEPT !.is_sending_ = TRUE], [op |-> "send_queued", entry |-> Head(q.queue_)])

\* Mutant: the socket is left open.
StopOnly(e) ==
    [e EXCEPT !.sending_blocked_ = TRUE, !.queue_ = <<>>, !.connect_timer_ = FALSE]

stop(e) ==
    Post([e EXCEPT !.sending_blocked_ = TRUE, !.queue_ = <<>>, !.connect_timer_ = FALSE],
         [op |-> "close"])

-----------------------------------------------------------------------------
EndpointInit ==
    /\ ep = [state_ |-> "CLOSED", open |-> FALSE, link |-> "none", writes |-> <<>>, reads |-> 0,
             queue_ |-> <<>>, is_sending_ |-> FALSE, was_not_connected_ |-> FALSE,
             sending_blocked_ |-> FALSE, aborted_restart_count_ |-> 0,
             connect_timer_ |-> FALSE, connecting_timer_ |-> FALSE, sent_timer_ |-> FALSE,
             due |-> {}, strand_ |-> <<[op |-> "connect"]>>, available |-> FALSE]
    /\ accepted = 0 /\ delivered = 0 /\ faults = 0 /\ restarts = 0
    /\ overtaken = FALSE /\ unaccounted = FALSE

Fault(happens) ==
    /\ happens => faults < MaxFaults
    /\ faults' = IF happens THEN faults + 1 ELSE faults

(* The handlers on the strand                                              *)

OnStrand(op) == ep.strand_ # <<>> /\ Head(ep.strand_).op = op
Arg       == Head(ep.strand_)
Rest      == [ep EXCEPT !.strand_ = Tail(@)]

RunConnect ==
    /\ OnStrand("connect")
    /\ \E bound \in BOOLEAN : Fault(~bound) /\ ep' = connect(Rest, bound)
    /\ UNCHANGED <<accepted, delivered, restarts, overtaken, unaccounted>>

RunConnected ==
    /\ OnStrand("connected")
    /\ ep' = cancel_and_connect_cbk(Rest, Arg.err)
    /\ overtaken' = (overtaken \/ (Arg.stale /\ ep.connecting_timer_ /\ (Arg.err = "ok" \/ ep.open)))
    /\ UNCHANGED <<accepted, delivered, faults, restarts, unaccounted>>

RunSent ==
    /\ OnStrand("sent")
    /\ ep' = send_cbk(Rest, Arg.err)
    /\ overtaken' = (overtaken \/ (Arg.stale /\ ep.open))
    /\ UNCHANGED <<accepted, delivered, faults, restarts, unaccounted>>

RunSendQueued ==
    /\ OnStrand("send_queued")
    /\ ep' = send_queued(Rest, Arg.entry)
    /\ unaccounted' = (unaccounted \/ (ep.open /\ (ep.queue_ = <<>> \/ Head(ep.queue_) # Arg.entry)))
    /\ UNCHANGED <<accepted, delivered, faults, restarts, overtaken>>

\* A connection attempt ends after VSOMEIP_DEFAULT_CONNECTING_TIMEOUT, which is less
\* than tcp_connect_time_max_: only connect_timepoint_ of an earlier one is that old.
RunHandler ==
    /\ \/ OnStrand("connect_cbk") /\ ep' = connect_cbk(Rest, Arg.err)
       \/ OnStrand("received") /\ ep' = receive_cbk(Rest, Arg.err)
       \/ OnStrand("restart") /\ \E late \in {FALSE, ~ep.open} : ep' = restart(Rest, Arg.force, late)
       \/ OnStrand("close") /\ ep' = shutdown_and_close_socket(Rest)
    /\ UNCHANGED <<accepted, delivered, faults, restarts, overtaken, unaccounted>>

(* The timers                                                              *)

\* connect_timer_ and sent_timer_ are long against the handlers that are due when
\* they are started.
Idle == ep.strand_ = <<>> /\ ep.due = {}

TimerExpires ==
    /\ Idle
    /\ \/ ep.connect_timer_
          /\ ep' = [ep EXCEPT !.connect_timer_ = FALSE, !.due = {"wait_connect"}]
       \/ ep.sent_timer_
          /\ ep' = [ep EXCEPT !.sent_timer_ = FALSE, !.due = {"sent_timeout"}]
    /\ UNCHANGED <<accepted, delivered, faults, restarts, overtaken, unaccounted>>

ConnectingTimerExpires ==
    /\ ep.connecting_timer_ /\ Fault(TRUE)
    /\ ep' = [ep EXCEPT !.connecting_timer_ = FALSE, !.due = @ \cup {"wait_connecting"}]
    /\ UNCHANGED <<accepted, delivered, restarts, overtaken, unaccounted>>

wait_connect_cbk(e) ==
    IF e.sending_blocked_ THEN e ELSE Post(e, [op |-> "connect"])

wait_connecting_cbk(e) ==
    IF e.sending_blocked_ THEN e ELSE connect_cbk(e, "error")

RunTimerHandler ==
    \E t \in ep.due :
        /\ LET e == [ep EXCEPT !.due = @ \ {t}]
           IN  \/ t = "wait_connect" /\ ep' = wait_connect_cbk(e)
               \/ t = "wait_connecting" /\ ep' = wait_connecting_cbk(e)
               \/ t \in {"sent_aborted", "sent_timeout"}
                  /\ ep' = wait_until_sent(e, t = "sent_timeout", FALSE)
               \/ t = "established" /\ ep' = set_established(e)
        /\ UNCHANGED <<accepted, delivered, faults, restarts, overtaken, unaccounted>>

(* The network                                                             *)

Connects ==
    /\ ep.link = "connecting"
    /\ \E ok \in BOOLEAN :
        /\ Fault(~ok)
        /\ ep' = Post([ep EXCEPT !.link = IF ok THEN "up" ELSE "dead"],
                      Completion("connected", ok))
    /\ UNCHANGED <<accepted, delivered, restarts, overtaken, unaccounted>>

ConnectionLost ==
    /\ ep.link = "up" /\ Fault(TRUE)
    /\ ep' = [ep EXCEPT !.link = "dead"]
    /\ UNCHANGED <<accepted, delivered, restarts, overtaken, unaccounted>>

Writes ==
    /\ ep.writes # <<>> /\ ep.link # "connecting"
    /\ delivered' = IF ep.link = "up" THEN Head(ep.writes) ELSE delivered
    /\ ep' = Post([ep EXCEPT !.writes = Tail(@)],
                  Completion("sent", ep.link = "up"))
    /\ UNCHANGED <<accepted, faults, restarts, overtaken, unaccounted>>

ReadEnds ==
    /\ ep.reads > 0 /\ ep.link = "dead"
    /\ ep' = Post([ep EXCEPT !.reads = @ - 1], [op |-> "received", err |-> "eof"])
    /\ UNCHANGED <<accepted, delivered, faults, restarts, overtaken, unaccounted>>

Reads ==
    /\ ep.reads > 0 /\ ep.link = "up"
    /\ \E err \in {"ok", "broken"} :
        /\ Fault(err = "broken")
        /\ ep' = Post([ep EXCEPT !.reads = @ - 1], [op |-> "received", err |-> err])
    /\ UNCHANGED <<accepted, delivered, restarts, overtaken, unaccounted>>

(* The users of the endpoint                                               *)

QueueTrain ==
    /\ accepted < MaxMessages
    /\ accepted' = accepted + 1
    /\ ep' = queue_train(ep, accepted + 1)
    /\ UNCHANGED <<delivered, faults, restarts, overtaken, unaccounted>>

Restart ==
    /\ restarts < MaxRestarts
    /\ restarts' = restarts + 1
    /\ ep' = Post(ep, [op |-> "restart", force |-> FALSE])
    /\ UNCHANGED <<accepted, delivered, faults, overtaken, unaccounted>>

Stop ==
    /\ ~ep.sending_blocked_
    /\ ep' = stop(ep)
    /\ UNCHANGED <<accepted, delivered, faults, restarts, overtaken, unaccounted>>

Strand  == RunConnect \/ RunConnected \/ RunSent \/ RunSendQueued \/ RunHandler
Network == Connects \/ Writes \/ ReadEnds

EndpointNext ==
    \/ Strand \/ RunTimerHandler \/ TimerExpires \/ Network
    \/ ConnectingTimerExpires \/ ConnectionLost \/ Reads \/ QueueTrain \/ Restart \/ Stop

EndpointSpec == EndpointInit /\ [][EndpointNext]_endpointVars

\* The threads of the io_context run what is due, timers expire however often the
\* strand is busy in between, and the network answers.
EndpointFairness ==
    /\ WF_endpointVars(Strand) /\ WF_endpointVars(RunTimerHandler)
    /\ SF_endpointVars(TimerExpires) /\ WF_endpointVars(Network)

-----------------------------------------------------------------------------
(* Properties                                                              *)

\* As long as is_sending_ keeps queue_train from sending, a send_queued, a write or its
\* completion is under way: a queue is never left waiting for a write that was not
\* started.
SendingIsReal ==
    ep.is_sending_ /\ ~ep.sending_blocked_ =>
        ep.writes # <<>> \/ \E i \in DOMAIN ep.strand_ : ep.strand_[i].op \in {"send_queued", "sent"}

\* Whatever fails, for a while, in between, an endpoint that is not stopped gets (again
\* and again) to CONNECTED or ESTABLISHED with a connected socket, or took a stale
\* completion.
Connected == ep.link = "up" /\ ep.state_ \in {"CONNECTED", "ESTABLISHED"}
EndpointConnects == []<>(Connected \/ ep.sending_blocked_ \/ overtaken)

\* After stop() the socket is closed and, whatever connects and restarts were under
\* way, stays closed.
StopCloses == ep.sending_blocked_ ~> [](~ep.open)

\* Through reconnects, resumed and repeated writes, the peer is sent the messages in the
\* order in which they were queued.
InOrder == INSTANCE OrderedChannel WITH kept <- ~unaccounted
MessagesInOrder == InOrder!ChannelSpec
============================================================================
