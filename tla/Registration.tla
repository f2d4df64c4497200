---------------------------- MODULE Registration ----------------------------
(***************************************************************************)
(* How an application registers at the routing manager host, and registers  *)
(* again when the connection, the answer or the host is lost                *)
(* (routing_manager_client.cpp, with local_uds_client_endpoint_impl.cpp for *)
(* its sender_).  The host is reduced to what the client can tell of it:    *)
(* the queue of its registration thread, and what it knows the client       *)
(* offers and requests (routing_manager_stub.cpp; LocalOffers has the rest).*)
(*                                                                          *)
(* sender_ carries the commands and, back, the assignment of the client id; *)
(* routing info arrives on receiver_.  Two io threads run the handlers, so  *)
(* the one handler that tests state_, sends, and then sets state_ is two    *)
(* steps.  The host has seen the end of an old connection when it reads the *)
(* new one.  The field history is not in the code: it names the schedules   *)
(* the retries do not cover.                                                *)
(*   "overwritten" state_ was reset while a registration was confirmed      *)
(*   "reset"       the connection was reset, which leaves state_ as it was  *)
(*   "stopped"     stop() gave up waiting, and start() found state_ as it   *)
(*                 was or the host answered the deregistration only then    *)
(*   "late"        an answer to an earlier registration was taken for the   *)
(*                 answer to one the host still has to process              *)
(*   "idle"        a request waits for a debounce timer that is not running *)
(***************************************************************************)
EXTENDS Naturals, Sequences, FiniteSets, SequencesExt

CONSTANT MaxEvents   \* calls of the user, crashes of the host, errors of its endpoint,
                     \* and timeouts while an answer is still due

ASSUME MaxEventsAssumption == MaxEvents \in Nat

VARIABLES rc,      \* the routing manager client and its two endpoints, a record
          wire,    \* what is under way: toHost, acks, info
          host,    \* the routing manager host
          events

regVars == <<rc, wire, host, events>>

Event == events < MaxEvents /\ events' = events + 1

Mark(r, what, when) == IF when THEN [r EXCEPT !.history = @ \cup {what}] ELSE r

-----------------------------------------------------------------------------
(* sender_.                                                                 *)

\* sender_->send(): what is sent on a connection that is being made waits for
\* it; a connection the host has closed takes the command and loses it.
SendAll(w, commands) ==
    IF rc.lost THEN w
    ELSE [w EXCEPT !.toHost =
            @ \o [i \in DOMAIN commands |-> [conn |-> rc.conn, command |-> commands[i]]]]

Send(w, command) == SendAll(w, <<command>>)

\* Closing the connection: of the commands in the queue, the first kept ones
\* were already written.
Closed(w, kept) == [w EXCEPT !.toHost = SubSeq(@, 1, kept), !.acks = 0]

\* local_uds_client_endpoint_impl::restart(): not while it is connecting.
Restarted(r) == IF r.sender # "up" THEN r
                ELSE [r EXCEPT !.sender = "connecting", !.conn = @ + 1, !.lost = FALSE, !.unread = FALSE]

Restart(r, w) ==
    /\ rc' = Restarted(r)
    /\ IF r.sender # "up" THEN wire' = w
       ELSE \E kept \in 0..Len(w.toHost) : wire' = Closed(w, kept)

\* is_started_, which stop() clears when it has waited; io_ is stopped then too.
Running == rc.phase # "stopped"

-----------------------------------------------------------------------------
(* Connecting, assignment and registration.                                 *)

StartTimer(r, what) == [r EXCEPT !.timer = what]
CancelTimer(r) == [r EXCEPT !.timer = "off"]

\* assign_client().
assign_client(r, w) ==
    IF r.state_ # "DEREGISTERED" \/ ~r.is_connected_
    THEN rc' = r /\ wire' = w
    ELSE /\ rc' = StartTimer([r EXCEPT !.state_ = "ASSIGNING"], "assign")
         /\ wire' = Send(w, "assign")

\* Mutant: a client that was connected is not connected again.
ConnectOnce ==
    /\ Running /\ rc.sender = "connecting" /\ host.up /\ ~rc.is_connected_
    /\ assign_client([rc EXCEPT !.sender = "up", !.is_connected_ = TRUE], wire)
    /\ UNCHANGED <<host, events>>

\* connect_cbk() of sender_: on_connect() or on_disconnect().
on_connect ==
    /\ Running /\ rc.sender = "connecting" /\ host.up
    /\ assign_client([rc EXCEPT !.sender = "up", !.is_connected_ = TRUE], wire)
    /\ UNCHANGED <<host, events>>

on_disconnect ==
    /\ Running /\ rc.sender = "connecting" /\ ~host.up
    /\ rc' = [rc EXCEPT !.is_connected_ = FALSE, !.state_ = "DEREGISTERED"]
    /\ rc' # rc
    /\ UNCHANGED <<wire, host, events>>

\* register_application(), with receiver_ made by init_receiver().
register_application(r, w) ==
    LET made == [r EXCEPT !.receiver_ = TRUE]
    IN  IF ~r.is_connected_ THEN rc' = made /\ wire' = w
        ELSE /\ rc' = StartTimer([made EXCEPT !.state_ = "REGISTERING"], "register")
             /\ wire' = Send(w, "register")

\* on_client_assign_ack().
on_client_assign_ack ==
    /\ Running /\ wire.acks > 0
    /\ LET read == [wire EXCEPT !.acks = @ - 1]
       IN  IF rc.state_ = "ASSIGNING"
           THEN register_application(CancelTimer([rc EXCEPT !.state_ = "ASSIGNED"]), read)
           ELSE wire' = read /\ UNCHANGED rc
    /\ UNCHANGED <<host, events>>

\* send_pending_commands(): every offer, then every request.
Pending == (IF rc.pending_offers_ THEN <<"offer">> ELSE <<>>)
           \o (IF rc.requests_ THEN <<"request">> ELSE <<>>)

\* Mutant: only the requests are sent again.
SendRequests(w) == IF rc.requests_ THEN Send(w, "request") ELSE w

send_pending_commands(w) == SendAll(w, Pending)

\* on_routing_info() for RIE_ADD_CLIENT: the state is tested and the pending
\* commands are sent under registration_state_mutex_ ...
on_add_client ==
    /\ Running /\ wire.info # <<>> /\ Head(wire.info) = "add" /\ rc.adding = 0
    /\ LET read == [wire EXCEPT !.info = Tail(@)]
           again == \/ "register" \in Range(host.queue \o host.work)
                    \/ \E i \in DOMAIN wire.toHost : wire.toHost[i].command = "register"
       IN  IF rc.state_ = "REGISTERING"
           THEN /\ rc' = Mark([rc EXCEPT !.adding = rc.conn], "late", again)
                /\ wire' = send_pending_commands(read)
           ELSE wire' = read /\ UNCHANGED rc
    /\ UNCHANGED <<host, events>>

\* ... and then it is set, which on_disconnect(), reconnect() and the timeouts,
\* that do not take the mutex, cannot prevent.
Added ==
    /\ rc.adding # 0
    /\ rc' = Mark(CancelTimer([rc EXCEPT !.adding = 0, !.state_ = "REGISTERED"]),
                  "overwritten", rc.state_ # "REGISTERING" \/ rc.adding # rc.conn)
    /\ UNCHANGED <<wire, host, events>>

\* on_routing_info() for RIE_DELETE_CLIENT.
on_delete_client ==
    /\ Running /\ wire.info # <<>> /\ Head(wire.info) = "delete" /\ rc.adding = 0
    /\ wire' = [wire EXCEPT !.info = Tail(@)]
    /\ rc' = Mark([rc EXCEPT !.state_ = "DEREGISTERED"], "stopped", rc.phase = "running")
    /\ UNCHANGED <<host, events>>

-----------------------------------------------------------------------------
(* Timeouts and lost connections.                                           *)

\* Nothing is under way: the time passes.
NothingUnderWay == /\ wire.toHost = <<>> /\ wire.acks = 0 /\ wire.info = <<>>
         /\ host.queue = <<>> /\ host.work = <<>> /\ host.up
         /\ rc.sender # "connecting" /\ ~rc.lost /\ rc.adding = 0 /\ rc.due = {}

\* Time runs out, unless something is still under way a few times only.
Patience == IF NothingUnderWay THEN UNCHANGED events ELSE Event

\* register_application_timer_ expires and its handler is posted.
Expire ==
    /\ rc.timer # "off" /\ Patience
    /\ rc' = [rc EXCEPT !.timer = "off", !.due = @ \cup {rc.timer}]
    /\ UNCHANGED <<wire, host>>

\* Mutant: a timeout only resets the state.
GiveUpRegistering ==
    /\ Running /\ rc.due # {}
    /\ \E what \in rc.due :
         LET ran == [rc EXCEPT !.due = @ \ {what}]
         IN  rc' = IF rc.state_ = "REGISTERED" THEN ran
                   ELSE [ran EXCEPT !.state_ = "DEREGISTERED"]
    /\ UNCHANGED <<wire, host, events>>

\* assign_client_timeout_cbk() and register_application_timeout_cbk().
timeout_cbk ==
    /\ Running /\ rc.due # {}
    /\ \E what \in rc.due :
         LET ran == [rc EXCEPT !.due = @ \ {what}]
         IN  IF rc.state_ = "REGISTERED" THEN rc' = ran /\ UNCHANGED wire
             ELSE Restart([ran EXCEPT !.state_ = "DEREGISTERED"], wire)
    /\ UNCHANGED <<host, events>>

\* receive_cbk() of sender_ with eof: handle_client_error(), reconnect().
reconnect ==
    /\ Running /\ rc.lost /\ rc.sender = "up"
    /\ Restart([rc EXCEPT !.state_ = "DEREGISTERED"], wire)
    /\ UNCHANGED <<host, events>>

\* receive_cbk() with connection_reset: restart(true), and nobody is told.
ConnectionReset ==
    /\ Running /\ rc.lost /\ rc.sender = "up" /\ rc.unread
    /\ Restart(Mark(rc, "reset", rc.state_ \in {"REGISTERING", "REGISTERED"}), wire)
    /\ UNCHANGED <<host, events>>

-----------------------------------------------------------------------------
(* The user's calls: they take registration_state_mutex_.                   *)

Call == Event /\ rc.adding = 0 /\ UNCHANGED host

\* The command is sent if the client is registered and sender_ is there.
Tell(command) ==
    wire' = IF rc.state_ = "REGISTERED" /\ rc.sender # "none" THEN Send(wire, command) ELSE wire

offer_service ==
    /\ Call /\ ~rc.pending_offers_
    /\ rc' = [rc EXCEPT !.pending_offers_ = TRUE]
    /\ Tell("offer")

stop_offer_service ==
    /\ Call /\ rc.pending_offers_
    /\ rc' = [rc EXCEPT !.pending_offers_ = FALSE]
    /\ Tell("stop_offer")

\* request_service() with a debounce time: the timer is started unless
\* request_debounce_timer_running_ says that it is running.
request_service ==
    /\ Call /\ ~rc.requests_ /\ ~rc.requests_to_debounce_
    /\ rc' = [rc EXCEPT !.requests_to_debounce_ = TRUE,
                        !.debounce = IF @ = "off" THEN "waiting" ELSE @]
    /\ UNCHANGED wire

release_service ==
    /\ Call /\ (rc.requests_ \/ rc.requests_to_debounce_)
    /\ rc' = [rc EXCEPT !.requests_ = FALSE, !.requests_to_debounce_ = FALSE]
    /\ IF rc.requests_to_debounce_ THEN UNCHANGED wire ELSE Tell("release")

\* request_debounce_timeout_cbk(): it waits again until the client is
\* registered; one that was cancelled only clears the flag.
request_debounce_timeout_cbk ==
    /\ Running /\ rc.adding = 0 /\ rc.debounce \in {"waiting", "aborted"}
    /\ ~(rc.debounce = "waiting" /\ rc.requests_to_debounce_ /\ rc.state_ # "REGISTERED")
    /\ LET sent == rc.debounce = "waiting" /\ rc.requests_to_debounce_
       IN  /\ rc' = Mark([rc EXCEPT !.debounce = "off",
                                    !.requests_ = @ \/ sent,
                                    !.requests_to_debounce_ = @ /\ ~sent],
                         "idle", rc.requests_to_debounce_ /\ ~sent)
           /\ IF sent THEN Tell("request") ELSE UNCHANGED wire
    /\ UNCHANGED <<host, events>>

-----------------------------------------------------------------------------
(* stop() and start().                                                      *)

stop ==
    /\ rc.phase = "running" /\ Event
    /\ rc' = [rc EXCEPT !.phase = "registering",
                        !.timer = IF rc.state_ = "REGISTERING" THEN "off" ELSE @]
    /\ UNCHANGED <<wire, host>>

\* The end of stop(): both endpoints go, of the commands the first ones were
\* written.
Shut ==
    /\ rc' = [rc EXCEPT !.phase = "stopped", !.receiver_ = FALSE, !.sender = "none",
                        !.lost = FALSE, !.unread = FALSE,
                        !.debounce = IF @ = "waiting" THEN "aborted" ELSE @]
    /\ \E kept \in 0..Len(wire.toHost) : wire' = [Closed(wire, kept) EXCEPT !.info = <<>>]
    /\ host' = [host EXCEPT !.link = FALSE]

\* Waiting in stop() while state_ is the given one.
Waited(state) ==
    IF rc.state_ # state THEN UNCHANGED events ELSE Patience

StopRegistering ==
    /\ rc.phase = "registering" /\ Waited("REGISTERING")
    /\ IF rc.state_ = "REGISTERED"
       THEN /\ rc' = [rc EXCEPT !.phase = "deregistering"]
            /\ wire' = IF rc.is_connected_ THEN Send(wire, "deregister") ELSE wire
            /\ UNCHANGED host
       ELSE Shut

StopDeregistering ==
    /\ rc.phase = "deregistering" /\ Waited("REGISTERED")
    /\ Shut

start ==
    /\ rc.phase = "stopped" /\ rc.adding = 0
    /\ rc' = Mark([rc EXCEPT !.phase = "running", !.sender = "connecting", !.conn = @ + 1],
                  "stopped", \/ rc.state_ = "REGISTERED"
                             \/ rc.state_ # "DEREGISTERED" /\ rc.timer = "off" /\ rc.due = {})
    /\ UNCHANGED <<wire, host, events>>

-----------------------------------------------------------------------------
(* The routing manager host.                                                *)

\* update_registration().
Enqueue(h, type) ==
    [h EXCEPT !.queue = IF @ # <<>> /\ Last(@) = type THEN @ ELSE Append(@, type)]

\* The host ends the connection conn.
Disconnected(conn) ==
    /\ rc' = IF rc.sender = "up" /\ rc.conn = conn
             THEN [rc EXCEPT !.lost = TRUE,
                             !.unread = \E m \in Range(wire.toHost) : m.conn = conn]
             ELSE rc

Unread(w, conn) ==
    [w EXCEPT !.toHost = SelectSeq(@, LAMBDA m : m.conn # conn),
              !.acks = IF rc.conn = conn THEN 0 ELSE @]

\* A command arrives: one on a connection without an assigned client is
\* discarded.
OnMessage ==
    /\ host.up /\ wire.toHost # <<>>
    /\ LET m    == Head(wire.toHost)
           read == [wire EXCEPT !.toHost = Tail(@)]
           here == m.conn = rc.conn /\ rc.sender = "up"
       IN  /\ m.conn # rc.conn \/ rc.sender # "connecting"
           /\ \/ /\ m.command = "assign"
                 /\ host' = [host EXCEPT !.assigned = m.conn]
                 /\ wire' = IF here THEN [read EXCEPT !.acks = @ + 1] ELSE read
              \/ /\ m.command # "assign"
                 /\ wire' = read
                 /\ host' = IF m.conn # host.assigned THEN host
                            ELSE CASE m.command = "register" -> Enqueue(host, "register")
                                   [] m.command = "deregister" ->
                                        [Enqueue(host, "deregister") EXCEPT !.handler = FALSE]
                                   [] m.command \in {"offer", "stop_offer"} ->
                                        [host EXCEPT !.offers = m.command = "offer"]
                                   [] OTHER -> [host EXCEPT !.requests = m.command = "request"]
    /\ UNCHANGED <<rc, events>>

\* client_registration_func() takes what is pending for the client ...
TakeRegistrations ==
    /\ host.up /\ host.work = <<>> /\ host.queue # <<>>
    /\ host' = [host EXCEPT !.work = host.queue, !.queue = <<>>]
    /\ UNCHANGED <<rc, wire, events>>

\* remove_client_connections().
Removed(h) == [h EXCEPT !.registered = FALSE, !.offers = FALSE, !.requests = FALSE,
                        !.link = FALSE, !.handler = FALSE, !.assigned = 0]

\* ... and registration_func() works on it in order; a client it cannot reach
\* ends the work.
ProcessRegistration ==
    /\ host.up /\ host.work # <<>>
    /\ LET type == Head(host.work)
           rest == Tail(host.work)
       IN  \/ /\ type = "register" /\ rc.receiver_
              /\ host' = [host EXCEPT !.work = rest, !.registered = TRUE, !.offers = FALSE,
                                      !.link = TRUE, !.handler = TRUE]
              /\ wire' = [wire EXCEPT !.info = Append(@, "add")]
              /\ UNCHANGED rc
           \/ /\ type # "register" \/ ~rc.receiver_
              /\ host' = [Removed(host) EXCEPT !.work = IF type = "register" THEN <<>> ELSE rest]
              /\ wire' = LET told == IF type = "deregister" /\ host.link
                                     THEN [wire EXCEPT !.info = Append(@, "delete")] ELSE wire
                         IN  Unread(told, host.assigned)
              /\ Disconnected(host.assigned)
    /\ UNCHANGED <<events>>

\* Mutant: the end of the client is not noticed.
ErrorOfLink ==
    /\ host.up /\ host.registered /\ host.handler /\ host.link /\ Event
    /\ host' = [Enqueue(host, "error") EXCEPT !.handler = FALSE]
    /\ UNCHANGED <<rc, wire>>

\* The error handler of the host's endpoint to receiver_.
HostError ==
    /\ host.up /\ host.registered /\ host.handler
    /\ IF host.link THEN Event ELSE UNCHANGED events
    /\ host' = [Enqueue(host, "error") EXCEPT !.handler = FALSE]
    /\ UNCHANGED <<rc, wire>>

EmptyHost == [up |-> TRUE, assigned |-> 0, queue |-> <<>>, work |-> <<>>, registered |-> FALSE,
              offers |-> FALSE, requests |-> FALSE, link |-> FALSE, handler |-> FALSE]

HostCrash ==
    /\ host.up /\ Event
    /\ host' = [EmptyHost EXCEPT !.up = FALSE]
    /\ Disconnected(rc.conn)
    /\ wire' = [wire EXCEPT !.toHost = SelectSeq(@, LAMBDA m : m.conn = rc.conn
                                                              /\ rc.sender = "connecting"),
                            !.acks = 0]

HostUp ==
    /\ ~host.up
    /\ host' = EmptyHost
    /\ UNCHANGED <<rc, wire, events>>

-----------------------------------------------------------------------------

\* After init() and start(), with or without an offer that was made before: sender_
\* is connecting, the host is there or not.
RegInit ==
    /\ \E offered \in BOOLEAN : rc =
            [state_ |-> "DEREGISTERED", is_connected_ |-> FALSE, phase |-> "running",
             sender |-> "connecting", conn |-> 1, lost |-> FALSE, unread |-> FALSE,
             receiver_ |-> FALSE, adding |-> 0, timer |-> "off", due |-> {},
             pending_offers_ |-> offered, requests_ |-> FALSE, requests_to_debounce_ |-> FALSE,
             debounce |-> "off", history |-> {}]
    /\ wire = [toHost |-> <<>>, acks |-> 0, info |-> <<>>]
    /\ \E up \in BOOLEAN : host = [EmptyHost EXCEPT !.up = up]
    /\ events = 0

Handlers ==
    \/ on_connect \/ on_disconnect \/ on_client_assign_ack
    \/ on_add_client \/ Added \/ on_delete_client
    \/ timeout_cbk \/ reconnect \/ ConnectionReset \/ request_debounce_timeout_cbk

HostSteps == OnMessage \/ TakeRegistrations \/ ProcessRegistration \/ HostError \/ HostUp

RegNext ==
    \/ Handlers \/ HostSteps \/ HostCrash \/ Expire
    \/ offer_service \/ stop_offer_service \/ request_service \/ release_service
    \/ stop \/ StopRegistering \/ StopDeregistering \/ start

\* Handlers that are posted run, timers expire, waiting ends, and the host works
\* and is started again; nobody has to call stop() or start().  What is not due
\* for ever is bounded, so that it is enough not to stop altogether.
Progress == Handlers \/ HostSteps \/ Expire \/ StopRegistering \/ StopDeregistering

RegFairness == WF_regVars(Progress)

RegSpec == RegInit /\ [][RegNext]_regVars

-----------------------------------------------------------------------------

Unsettled == {"overwritten", "reset", "stopped"}

\* A client that is started and not registered always has something that makes
\* it try again (a connection being made, a timer, a handler to run): none of
\* the ways a step of the registration can be lost strands it.
RetryIsDue ==
    rc.phase = "running" /\ rc.state_ # "REGISTERED" /\ rc.history \cap Unsettled = {}
    => rc.sender = "connecting" \/ rc.lost \/ rc.timer # "off" \/ rc.due # {} \/ rc.adding # 0

\* When a registered client and the host have nothing more to tell each other,
\* the host knows exactly what the client offers, and at least what it requests
\* (a release made while it is not registered is never told), however often the
\* registration was made again in between.
HostKnows ==
    rc.phase = "running" /\ rc.state_ = "REGISTERED" /\ NothingUnderWay /\ rc.history \cap (Unsettled \cup {"late"}) = {}
    => /\ host.registered
       /\ host.offers = rc.pending_offers_
       /\ rc.requests_ => host.requests

\* A client that is started registers, and registers again after every loss:
\* connection, answer or host.
Registers ==
    []<>(rc.phase # "running" \/ rc.state_ = "REGISTERED" \/ rc.history \cap Unsettled # {})

\* The host forgets a client that has been stopped for good.
HostForgets ==
    rc.phase = "stopped" ~> rc.phase # "stopped" \/ ~host.up \/ ~host.registered
=============================================================================
