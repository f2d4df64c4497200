--------------------------- MODULE RoutingProofs ---------------------------
(***************************************************************************)
(* Proofs about the routing manager.  Its client: one that is started and   *)
(* not registered has a retry coming, however often its connection, its     *)
(* answers or the host are lost (Registration).  Its subscribing side: a    *)
(* subscriber of the event is served by the one subscription of the device, *)
(* for any number of applications, calls, withdrawals, expiries and         *)
(* reboots, and however the threads interleave (Subscriber).                *)
(***************************************************************************)
EXTENDS Registration, Subscriber, TLAPS

\* The routing manager client.
Client ==
    [state_ : {"DEREGISTERED", "ASSIGNING", "ASSIGNED", "REGISTERING", "REGISTERED"},
     is_connected_ : BOOLEAN, phase : {"running", "registering", "deregistering", "stopped"},
     sender : {"none", "connecting", "up"}, conn : Nat, lost : BOOLEAN, unread : BOOLEAN,
     receiver_ : BOOLEAN, adding : Nat, timer : {"off", "assign", "register"},
     due : SUBSET {"assign", "register"}, pending_offers_ : BOOLEAN, requests_ : BOOLEAN,
     requests_to_debounce_ : BOOLEAN, debounce : {"off", "waiting", "aborted"},
     history : SUBSET (Unsettled \cup {"late", "idle"})]

\* A client that is not registered is connecting, or waits for an answer with the
\* timer of assign_client or register_application running or its handler due.
\* Away from the schedules that history names, only on_disconnect clears
\* is_connected_, so that register_application never stops half way.
Retrying(r) ==
    /\ r.phase # "stopped" => r.sender # "none"
    /\ r.history \cap Unsettled = {} =>
        /\ r.state_ # "DEREGISTERED" => r.is_connected_
        /\ r.state_ # "ASSIGNED"
        /\ r.phase = "running" /\ r.state_ = "DEREGISTERED" => r.sender = "connecting"
        /\ r.phase = "running" /\ r.state_ \in {"ASSIGNING", "REGISTERING"}
           => r.timer # "off" \/ r.due # {}

RetryInv == rc \in Client /\ Retrying(rc)

-----------------------------------------------------------------------------
(* The parts of the handlers                                               *)

\* Naming a schedule in history claims less.
LEMMA MarkKeeps ==
    ASSUME NEW r \in Client, Retrying(r), NEW what \in Unsettled \cup {"late", "idle"}, NEW when \in BOOLEAN
    PROVE  Mark(r, what, when) \in Client /\ Retrying(Mark(r, what, when))
<1>1. CASE when
  <2> DEFINE f == Mark(r, what, when)
  <2>1. f = [r EXCEPT !.history = @ \cup {what}]
    BY <1>1 DEF Mark
  <2>2. f \in Client /\ r.history \subseteq f.history
    BY <2>1 DEF Client
  <2>3. /\ f.phase = r.phase /\ f.sender = r.sender /\ f.state_ = r.state_ /\ f.timer = r.timer
        /\ f.due = r.due /\ f.is_connected_ = r.is_connected_
    BY <2>1 DEF Client
  <2>4. Retrying(f)
    <3>1. f.history \cap Unsettled = {} => r.history \cap Unsettled = {}
      BY <2>2
    <3> QED BY <2>3, <3>1 DEF Retrying
  <2> QED BY <2>2, <2>4
<1>2. CASE ~when
  BY <1>2 DEF Mark
<1> QED BY <1>1, <1>2

\* A connection that is made anew.
LEMMA RestartedKeeps ==
    ASSUME NEW r \in Client, r.sender # "none"
    PROVE  LET f == Restarted(r)
           IN  /\ f \in Client /\ f.sender = "connecting"
               /\ f.state_ = r.state_ /\ f.is_connected_ = r.is_connected_ /\ f.phase = r.phase
               /\ f.timer = r.timer /\ f.due = r.due /\ f.history = r.history
<1>1. CASE r.sender = "up"
  <2>1. r.conn + 1 \in Nat
    BY DEF Client
  <2> QED BY <1>1, <2>1 DEF Restarted, Client
<1>2. CASE r.sender = "connecting"
  BY <1>2 DEF Restarted
<1> QED BY <1>1, <1>2 DEF Client

\* Restarting with state_ reset, or with what was kept.
LEMMA RestartKeeps ==
    ASSUME NEW r \in Client, r.sender # "none",
           Retrying(r) \/ (r.state_ = "DEREGISTERED"), NEW w, Restart(r, w)
    PROVE  RetryInv'
<1>1. rc' = Restarted(r)
  BY DEF Restart
<1>2. /\ rc' \in Client /\ rc'.sender = "connecting"
      /\ rc'.state_ = r.state_ /\ rc'.is_connected_ = r.is_connected_ /\ rc'.phase = r.phase
      /\ rc'.timer = r.timer /\ rc'.due = r.due /\ rc'.history = r.history
  BY <1>1, RestartedKeeps
<1>3. Retrying(rc')
  BY <1>2 DEF Retrying
<1> QED BY <1>2, <1>3 DEF RetryInv

\* Changes of what neither Retrying nor the connection depends on.
LEMMA SameRetry ==
    ASSUME NEW r \in Client, Retrying(r), NEW f \in Client, f.phase = r.phase, f.sender = r.sender,
           f.history = r.history, f.state_ = r.state_, f.is_connected_ = r.is_connected_,
           f.timer = r.timer, f.due = r.due
    PROVE  Retrying(f)
BY DEF Retrying

-----------------------------------------------------------------------------
(* The handlers of the client                                              *)

\* connect_cbk() of sender_, with the connection made.
LEMMA OnConnectStep == ASSUME RetryInv, on_connect PROVE RetryInv'
<1> DEFINE r == [rc EXCEPT !.sender = "up", !.is_connected_ = TRUE]
<1>1. rc \in Client /\ Retrying(rc) /\ rc.sender = "connecting" /\ assign_client(r, wire)
  BY DEF RetryInv, on_connect
<1>2. /\ r \in Client /\ r.sender = "up" /\ r.is_connected_ /\ r.state_ = rc.state_ /\ r.phase = rc.phase
      /\ r.timer = rc.timer /\ r.due = rc.due /\ r.history = rc.history
  BY <1>1 DEF Client
<1> HIDE DEF r
<1>3. CASE r.state_ = "DEREGISTERED"
  <2>1. rc' = [[r EXCEPT !.state_ = "ASSIGNING"] EXCEPT !.timer = "assign"]
    BY <1>1, <1>2, <1>3 DEF assign_client, StartTimer
  <2>2. /\ rc' \in Client /\ rc'.sender = "up" /\ rc'.is_connected_ /\ rc'.state_ = "ASSIGNING"
        /\ rc'.timer = "assign"
    BY <1>2, <2>1 DEF Client
  <2> QED BY <2>2 DEF RetryInv, Retrying
<1>4. CASE r.state_ # "DEREGISTERED"
  <2>1. rc' = r
    BY <1>1, <1>4 DEF assign_client
  <2> QED BY <1>1, <1>2, <1>4, <2>1 DEF RetryInv, Retrying
<1> QED BY <1>3, <1>4

\* connect_cbk() with an error.
LEMMA OnDisconnectStep == ASSUME RetryInv, on_disconnect PROVE RetryInv'
<1>1. rc \in Client /\ Retrying(rc) /\ rc.sender = "connecting"
  BY DEF RetryInv, on_disconnect
<1>2. /\ rc' \in Client /\ rc'.sender = "connecting" /\ rc'.state_ = "DEREGISTERED"
  BY <1>1 DEF on_disconnect, Client
<1> QED BY <1>2 DEF RetryInv, Retrying

\* on_client_assign_ack(), with register_application().
LEMMA AssignAckStep == ASSUME RetryInv, on_client_assign_ack PROVE RetryInv'
<1>1. rc \in Client /\ Retrying(rc)
  BY DEF RetryInv
<1>2. CASE rc.state_ = "ASSIGNING"
  <2> DEFINE r == CancelTimer([rc EXCEPT !.state_ = "ASSIGNED"])
             made == [r EXCEPT !.receiver_ = TRUE]
  <2>1. register_application(r, [wire EXCEPT !.acks = @ - 1])
    BY <1>2 DEF on_client_assign_ack
  <2>2. /\ made \in Client /\ r.is_connected_ = rc.is_connected_ /\ made.is_connected_ = rc.is_connected_
        /\ made.phase = rc.phase /\ made.sender = rc.sender /\ made.history = rc.history
    BY <1>1 DEF CancelTimer, Client
  <2>3. rc' = IF ~r.is_connected_ THEN made ELSE StartTimer([made EXCEPT !.state_ = "REGISTERING"], "register")
    BY <2>1 DEF register_application
  <2> HIDE DEF made, r
  <2>4. CASE r.is_connected_
    <3>1. rc' = [[made EXCEPT !.state_ = "REGISTERING"] EXCEPT !.timer = "register"]
      BY <2>3, <2>4 DEF StartTimer
    <3>2. /\ rc' \in Client /\ rc'.is_connected_ = rc.is_connected_ /\ rc'.state_ = "REGISTERING"
          /\ rc'.timer = "register" /\ rc'.phase = rc.phase /\ rc'.sender = rc.sender
      BY <2>2, <3>1 DEF Client
    <3> QED BY <1>1, <2>2, <2>4, <3>2 DEF RetryInv, Retrying
  <2>5. CASE ~r.is_connected_
    <3>1. rc' = made
      BY <2>3, <2>5
    <3>2. rc.history \cap Unsettled # {}
      BY <1>1, <1>2, <2>2, <2>5 DEF Retrying
    <3> QED BY <1>1, <2>2, <3>1, <3>2 DEF RetryInv, Retrying
  <2> QED BY <2>4, <2>5
<1>3. CASE rc.state_ # "ASSIGNING"
  BY <1>1, <1>3 DEF on_client_assign_ack, RetryInv
<1> QED BY <1>2, <1>3

\* on_routing_info(): the answer is accepted.
LEMMA AddClientStep == ASSUME RetryInv, on_add_client PROVE RetryInv'
<1>1. rc \in Client /\ Retrying(rc)
  BY DEF RetryInv
<1>2. CASE rc.state_ = "REGISTERING"
  <2> DEFINE f == [rc EXCEPT !.adding = rc.conn]
             again == \/ "register" \in Range(host.queue \o host.work)
                      \/ \E i \in DOMAIN wire.toHost : wire.toHost[i].command = "register"
  <2>1. f \in Client /\ Retrying(f)
    <3>1. /\ f \in Client /\ f.phase = rc.phase /\ f.sender = rc.sender /\ f.history = rc.history
          /\ f.state_ = rc.state_ /\ f.is_connected_ = rc.is_connected_ /\ f.timer = rc.timer
          /\ f.due = rc.due
      BY <1>1 DEF Client
    <3> QED BY <1>1, <3>1, SameRetry
  <2>2. rc' = Mark(f, "late", again) /\ again \in BOOLEAN
    BY <1>2 DEF on_add_client
  <2> HIDE DEF f, again
  <2> QED BY <2>1, <2>2, MarkKeeps DEF RetryInv
<1>3. CASE rc.state_ # "REGISTERING"
  BY <1>1, <1>3 DEF on_add_client, RetryInv
<1> QED BY <1>2, <1>3

\* ... and state_ is set.
LEMMA AddedStep == ASSUME RetryInv, Added PROVE RetryInv'
<1>1. rc \in Client /\ Retrying(rc)
  BY DEF RetryInv
<1> DEFINE f == CancelTimer([rc EXCEPT !.adding = 0, !.state_ = "REGISTERED"])
           over == rc.state_ # "REGISTERING" \/ rc.adding # rc.conn
<1>2. rc' = Mark(f, "overwritten", over)
  BY DEF Added
<1>3. /\ f \in Client /\ f.phase = rc.phase /\ f.sender = rc.sender /\ f.history = rc.history
      /\ f.state_ = "REGISTERED" /\ f.is_connected_ = rc.is_connected_
  BY <1>1 DEF Client, CancelTimer
<1>4. CASE over
  <2>1. rc' = [f EXCEPT !.history = @ \cup {"overwritten"}]
    BY <1>2, <1>4 DEF Mark
  <2> HIDE DEF f, over
  <2>2. rc' \in Client /\ "overwritten" \in rc'.history /\ rc'.phase = f.phase /\ rc'.sender = f.sender
    BY <1>3, <2>1 DEF Client, Unsettled
  <2> QED BY <1>1, <1>3, <2>2 DEF RetryInv, Retrying, Unsettled
<1>5. CASE ~over
  <2>1. rc' = f /\ rc.state_ = "REGISTERING"
    BY <1>2, <1>5 DEF Mark
  <2> HIDE DEF f, over
  <2> QED BY <1>1, <1>3, <2>1 DEF RetryInv, Retrying
<1> QED BY <1>4, <1>5

\* on_routing_info(): the host has removed the client.
LEMMA DeleteClientStep == ASSUME RetryInv, on_delete_client PROVE RetryInv'
<1>1. rc \in Client /\ Retrying(rc)
  BY DEF RetryInv
<1> DEFINE f == [rc EXCEPT !.state_ = "DEREGISTERED"]
           on == rc.phase = "running"
<1>2. rc' = Mark(f, "stopped", on)
  BY DEF on_delete_client
<1>3. f \in Client /\ f.phase = rc.phase /\ f.sender = rc.sender /\ f.state_ = "DEREGISTERED"
  BY <1>1 DEF Client
<1>4. CASE on
  <2>1. rc' = [f EXCEPT !.history = @ \cup {"stopped"}]
    BY <1>2, <1>4 DEF Mark
  <2> HIDE DEF f, on
  <2>2. rc' \in Client /\ "stopped" \in rc'.history /\ rc'.phase = f.phase /\ rc'.sender = f.sender
    BY <1>3, <2>1 DEF Client, Unsettled
  <2> QED BY <1>1, <1>3, <2>2 DEF RetryInv, Retrying, Unsettled
<1>5. CASE ~on
  <2>1. rc' = f /\ rc.phase # "running"
    BY <1>2, <1>5 DEF Mark
  <2> HIDE DEF f, on
  <2> QED BY <1>1, <1>3, <2>1 DEF RetryInv, Retrying
<1> QED BY <1>4, <1>5

\* The timer expires: its handler is due.
LEMMA ExpireStep == ASSUME RetryInv, Expire PROVE RetryInv'
<1>1. rc \in Client /\ Retrying(rc)
  BY DEF RetryInv
<1>2. rc' = [rc EXCEPT !.timer = "off", !.due = @ \cup {rc.timer}] /\ rc.timer # "off"
  BY DEF Expire
<1>3. /\ rc' \in Client /\ rc.timer \in rc'.due /\ rc'.phase = rc.phase /\ rc'.sender = rc.sender
      /\ rc'.history = rc.history /\ rc'.state_ = rc.state_ /\ rc'.is_connected_ = rc.is_connected_
  BY <1>1, <1>2 DEF Client
<1> QED BY <1>1, <1>3 DEF RetryInv, Retrying

\* The handler of a timeout: unless the client is registered, it connects again.
\* A client whose stop() has ended runs no handler, so that sender_ is there.
LEMMA TimeoutStep == ASSUME RetryInv, timeout_cbk PROVE RetryInv'
<1>1. rc \in Client /\ Retrying(rc) /\ rc.sender # "none"
  BY DEF RetryInv, Retrying, timeout_cbk, Running
<1>2. PICK what \in rc.due :
        LET ran == [rc EXCEPT !.due = @ \ {what}]
        IN  IF rc.state_ = "REGISTERED" THEN rc' = ran /\ UNCHANGED wire
            ELSE Restart([ran EXCEPT !.state_ = "DEREGISTERED"], wire)
  BY DEF timeout_cbk
<1> DEFINE ran == [rc EXCEPT !.due = @ \ {what}]
<1>3. /\ ran \in Client /\ ran.phase = rc.phase /\ ran.sender = rc.sender
      /\ ran.history = rc.history /\ ran.state_ = rc.state_ /\ ran.is_connected_ = rc.is_connected_
  BY <1>1 DEF Client
<1>4. CASE rc.state_ = "REGISTERED"
  <2>1. rc' = ran
    BY <1>2, <1>4
  <2> HIDE DEF ran
  <2> QED BY <1>1, <1>3, <1>4, <2>1 DEF RetryInv, Retrying
<1>5. CASE rc.state_ # "REGISTERED"
  <2>1. Restart([ran EXCEPT !.state_ = "DEREGISTERED"], wire)
    BY <1>2, <1>5
  <2> HIDE DEF ran
  <2> DEFINE f == [ran EXCEPT !.state_ = "DEREGISTERED"]
  <2>2. f \in Client /\ f.sender # "none" /\ f.state_ = "DEREGISTERED"
    BY <1>1, <1>3 DEF Client
  <2>3. Restart(f, wire)
    BY <2>1
  <2> HIDE DEF f
  <2> QED BY <2>2, <2>3, RestartKeeps
<1> QED BY <1>4, <1>5

\* eof on sender_: the client starts from the beginning.
LEMMA ReconnectStep == ASSUME RetryInv, reconnect PROVE RetryInv'
<1> DEFINE f == [rc EXCEPT !.state_ = "DEREGISTERED"]
<1>1. f \in Client /\ f.sender # "none" /\ f.state_ = "DEREGISTERED"
  BY DEF RetryInv, reconnect, Client
<1>2. Restart(f, wire)
  BY DEF reconnect
<1> HIDE DEF f
<1> QED BY <1>1, <1>2, RestartKeeps

\* connection_reset on sender_: a new connection in the old state.
LEMMA ResetStep == ASSUME RetryInv, ConnectionReset PROVE RetryInv'
<1> DEFINE when == rc.state_ \in {"REGISTERING", "REGISTERED"}
           f == Mark(rc, "reset", when)
<1>1. Restart(f, wire) /\ rc.sender = "up" /\ rc \in Client /\ Retrying(rc)
  BY DEF ConnectionReset, RetryInv
<1>2. when \in BOOLEAN /\ "reset" \in Unsettled
  BY DEF Unsettled
<1>3. f.sender = "up"
  BY <1>1 DEF Mark, Client
<1>4. f \in Client /\ Retrying(f)
  <2> HIDE DEF when
  <2> QED BY <1>1, <1>2, MarkKeeps
<1> HIDE DEF f
<1> QED BY <1>1, <1>3, <1>4, RestartKeeps

\* The user's calls change what the client offers and requests.
LEMMA CallStep ==
    ASSUME RetryInv, offer_service \/ stop_offer_service \/ request_service \/ release_service
    PROVE  RetryInv'
<1>1. rc \in Client /\ Retrying(rc)
  BY DEF RetryInv
<1>2. /\ rc' \in Client /\ rc'.phase = rc.phase /\ rc'.sender = rc.sender /\ rc'.history = rc.history
      /\ rc'.state_ = rc.state_ /\ rc'.is_connected_ = rc.is_connected_ /\ rc'.timer = rc.timer
      /\ rc'.due = rc.due
  <2>1. CASE offer_service \/ stop_offer_service
    BY <1>1, <2>1 DEF offer_service, stop_offer_service, Client
  <2>2. CASE request_service
    <3>1. (IF rc.debounce = "off" THEN "waiting" ELSE rc.debounce) \in {"off", "waiting", "aborted"}
      BY <1>1 DEF Client
    <3> QED BY <1>1, <2>2, <3>1 DEF request_service, Client
  <2>3. CASE release_service
    BY <1>1, <2>3 DEF release_service, Client
  <2> QED BY <2>1, <2>2, <2>3
<1> QED BY <1>1, <1>2, SameRetry DEF RetryInv

\* The debounce timer of requests.
LEMMA DebounceStep == ASSUME RetryInv, request_debounce_timeout_cbk PROVE RetryInv'
<1>1. rc \in Client /\ Retrying(rc)
  BY DEF RetryInv
<1> DEFINE sent == rc.debounce = "waiting" /\ rc.requests_to_debounce_
           f == [rc EXCEPT !.debounce = "off", !.requests_ = @ \/ sent,
                           !.requests_to_debounce_ = @ /\ ~sent]
           idle == rc.requests_to_debounce_ /\ ~sent
<1>2. rc' = Mark(f, "idle", idle)
  BY DEF request_debounce_timeout_cbk
<1>3. rc.requests_to_debounce_ \in BOOLEAN /\ rc.requests_ \in BOOLEAN
  BY <1>1 DEF Client
<1>4. sent \in BOOLEAN /\ idle \in BOOLEAN
  BY <1>3
<1>5. /\ f \in Client /\ f.phase = rc.phase /\ f.sender = rc.sender /\ f.history = rc.history
      /\ f.state_ = rc.state_ /\ f.is_connected_ = rc.is_connected_ /\ f.timer = rc.timer
      /\ f.due = rc.due
  <2> DEFINE p == rc.requests_ \/ sent
             q == rc.requests_to_debounce_ /\ ~sent
  <2>1. p \in BOOLEAN /\ q \in BOOLEAN
    BY <1>3
  <2>2. f = [rc EXCEPT !.debounce = "off", !.requests_ = p, !.requests_to_debounce_ = q]
    OBVIOUS
  <2> HIDE DEF p, q, f, sent
  <2> QED BY <1>1, <2>1, <2>2 DEF Client
<1> HIDE DEF f, idle, sent
<1>6. Retrying(f)
  BY <1>1, <1>5, SameRetry
<1> QED BY <1>2, <1>4, <1>5, <1>6, MarkKeeps DEF RetryInv

-----------------------------------------------------------------------------
(* stop() and start()                                                       *)

\* stop(): nothing more is promised.
LEMMA StopStep == ASSUME RetryInv, stop PROVE RetryInv'
<1>1. rc \in Client /\ Retrying(rc)
  BY DEF RetryInv
<1>2. (IF rc.state_ = "REGISTERING" THEN "off" ELSE rc.timer) \in {"off", "assign", "register"}
  BY <1>1 DEF Client
<1>3. /\ rc' \in Client /\ rc'.phase = "registering" /\ rc'.sender = rc.sender /\ rc'.history = rc.history
      /\ rc'.state_ = rc.state_ /\ rc'.is_connected_ = rc.is_connected_ /\ rc.phase = "running"
  BY <1>1, <1>2 DEF stop, Client
<1> QED BY <1>1, <1>3 DEF RetryInv, Retrying

\* The end of stop().
LEMMA ShutStep == ASSUME RetryInv, Shut PROVE RetryInv'
<1>1. rc \in Client /\ Retrying(rc)
  BY DEF RetryInv
<1>2. (IF rc.debounce = "waiting" THEN "aborted" ELSE rc.debounce) \in {"off", "waiting", "aborted"}
  BY <1>1 DEF Client
<1>3. /\ rc' \in Client /\ rc'.phase = "stopped" /\ rc'.history = rc.history
      /\ rc'.state_ = rc.state_ /\ rc'.is_connected_ = rc.is_connected_
  BY <1>1, <1>2 DEF Shut, Client
<1> QED BY <1>1, <1>3 DEF RetryInv, Retrying

\* stop() waits for the registration and for the deregistration.
LEMMA StopWaitStep == ASSUME RetryInv, StopRegistering \/ StopDeregistering PROVE RetryInv'
<1>1. rc \in Client /\ Retrying(rc)
  BY DEF RetryInv
<1>2. CASE StopRegistering /\ rc.state_ = "REGISTERED"
  <2>1. /\ rc' \in Client /\ rc'.phase = "deregistering" /\ rc'.sender = rc.sender
        /\ rc'.history = rc.history /\ rc'.state_ = rc.state_ /\ rc'.is_connected_ = rc.is_connected_
        /\ rc.phase = "registering"
    BY <1>1, <1>2 DEF StopRegistering, Client
  <2> QED BY <1>1, <2>1 DEF RetryInv, Retrying
<1>3. CASE StopRegistering /\ rc.state_ # "REGISTERED"
  BY <1>3, ShutStep DEF StopRegistering
<1>4. CASE StopDeregistering
  BY <1>4, ShutStep DEF StopDeregistering
<1> QED BY <1>2, <1>3, <1>4

\* start() finds the state that stop() left.
LEMMA StartStep == ASSUME RetryInv, start PROVE RetryInv'
<1>1. rc \in Client /\ Retrying(rc)
  BY DEF RetryInv
<1> DEFINE f == [rc EXCEPT !.phase = "running", !.sender = "connecting", !.conn = @ + 1]
           left == \/ rc.state_ = "REGISTERED"
                   \/ rc.state_ # "DEREGISTERED" /\ rc.timer = "off" /\ rc.due = {}
<1>2. rc' = Mark(f, "stopped", left)
  BY DEF start
<1>3. rc.conn + 1 \in Nat
  BY <1>1 DEF Client
<1>4. /\ f \in Client /\ f.phase = "running" /\ f.sender = "connecting" /\ f.history = rc.history
      /\ f.state_ = rc.state_ /\ f.is_connected_ = rc.is_connected_ /\ f.timer = rc.timer
      /\ f.due = rc.due
  BY <1>1, <1>3 DEF Client
<1>5. CASE left
  <2>1. rc' = [f EXCEPT !.history = @ \cup {"stopped"}]
    BY <1>2, <1>5 DEF Mark
  <2> HIDE DEF f, left
  <2>2. rc' \in Client /\ "stopped" \in rc'.history /\ rc'.sender = f.sender
    BY <1>4, <2>1 DEF Client, Unsettled
  <2> QED BY <1>4, <2>2 DEF RetryInv, Retrying, Unsettled
<1>6. CASE ~left
  <2>1. rc' = f
    BY <1>2, <1>6 DEF Mark
  <2>2. rc.state_ \in {"ASSIGNING", "REGISTERING"} => rc.timer # "off" \/ rc.due # {}
    BY <1>6
  <2> HIDE DEF f, left
  <2> QED BY <1>1, <1>4, <2>1, <2>2 DEF RetryInv, Retrying
<1> QED BY <1>5, <1>6

-----------------------------------------------------------------------------
(* The host                                                                 *)

\* The host ends a connection.
LEMMA DisconnectedStep == ASSUME RetryInv, NEW conn, Disconnected(conn) PROVE RetryInv'
<1>1. rc \in Client /\ Retrying(rc)
  BY DEF RetryInv
<1> DEFINE unread == \E m \in Range(wire.toHost) : m.conn = conn
<1>2. unread \in BOOLEAN
  OBVIOUS
<1>3. CASE rc' = rc
  BY <1>1, <1>3 DEF RetryInv
<1>4. CASE rc' = [rc EXCEPT !.lost = TRUE, !.unread = unread]
  <2> HIDE DEF unread
  <2>1. /\ rc' \in Client /\ rc'.phase = rc.phase /\ rc'.sender = rc.sender /\ rc'.history = rc.history
        /\ rc'.state_ = rc.state_ /\ rc'.is_connected_ = rc.is_connected_ /\ rc'.timer = rc.timer
        /\ rc'.due = rc.due
    BY <1>1, <1>2, <1>4 DEF Client
  <2> QED BY <1>1, <2>1, SameRetry DEF RetryInv
<1> QED BY <1>3, <1>4 DEF Disconnected

\* Its steps leave the client alone, or end the connection.
LEMMA HostStep == ASSUME RetryInv, HostSteps \/ HostCrash PROVE RetryInv'
<1>1. CASE UNCHANGED rc
  BY <1>1 DEF RetryInv
<1>2. CASE \E conn : Disconnected(conn)
  BY <1>2, DisconnectedStep
<1>3. UNCHANGED rc \/ \E conn : Disconnected(conn)
  <2>1. CASE OnMessage \/ TakeRegistrations \/ HostError \/ HostUp
    BY <2>1 DEF OnMessage, TakeRegistrations, HostError, HostUp
  <2>2. CASE ProcessRegistration
    BY <2>2 DEF ProcessRegistration
  <2>3. CASE HostCrash
    BY <2>3 DEF HostCrash
  <2> QED BY <2>1, <2>2, <2>3 DEF HostSteps
<1> QED BY <1>1, <1>2, <1>3

-----------------------------------------------------------------------------

\* The state after init() and start().
LEMMA RetryInit == ASSUME RegInit PROVE RetryInv
<1>1. PICK offered \in BOOLEAN : rc =
            [state_ |-> "DEREGISTERED", is_connected_ |-> FALSE, phase |-> "running",
             sender |-> "connecting", conn |-> 1, lost |-> FALSE, unread |-> FALSE,
             receiver_ |-> FALSE, adding |-> 0, timer |-> "off", due |-> {},
             pending_offers_ |-> offered, requests_ |-> FALSE, requests_to_debounce_ |-> FALSE,
             debounce |-> "off", history |-> {}]
  BY DEF RegInit
<1>2. rc \in Client
  BY <1>1 DEF Client
<1>3. rc.phase = "running" /\ rc.state_ = "DEREGISTERED" /\ rc.sender = "connecting"
  BY <1>1
<1> QED BY <1>2, <1>3 DEF RetryInv, Retrying

\* Every step of the client, of its user and of the host keeps the invariant.
LEMMA RetryStep == ASSUME RetryInv, [RegNext]_regVars PROVE RetryInv'
<1>1. CASE Handlers
  BY <1>1, OnConnectStep, OnDisconnectStep, AssignAckStep, AddClientStep, AddedStep, DeleteClientStep,
     TimeoutStep, ReconnectStep, ResetStep, DebounceStep DEF Handlers
<1>2. CASE HostSteps \/ HostCrash
  BY <1>2, HostStep
<1>3. CASE Expire
  BY <1>3, ExpireStep
<1>4. CASE offer_service \/ stop_offer_service \/ request_service \/ release_service
  BY <1>4, CallStep
<1>5. CASE stop \/ StopRegistering \/ StopDeregistering \/ start
  BY <1>5, StopStep, StopWaitStep, StartStep
<1>6. CASE UNCHANGED regVars
  BY <1>6 DEF regVars, RetryInv
<1> QED BY <1>1, <1>2, <1>3, <1>4, <1>5, <1>6 DEF RegNext

\* A client that is started and not registered has a retry coming: it is
\* connecting, or a timer of assign_client() or register_application() runs, or
\* its handler is due, however many commands, answers, connections and hosts are
\* lost in whatever order.
THEOREM RetryStaysDue == RegSpec => []RetryIsDue
<1>1. RetryInv => RetryIsDue
  <2> SUFFICES ASSUME RetryInv, rc.phase = "running", rc.state_ # "REGISTERED", rc.history \cap Unsettled = {}
               PROVE  rc.sender = "connecting" \/ rc.timer # "off" \/ rc.due # {}
    BY DEF RetryIsDue
  <2>1. rc.state_ \in {"DEREGISTERED", "ASSIGNING", "ASSIGNED", "REGISTERING", "REGISTERED"}
    BY DEF RetryInv, Client
  <2> QED BY <2>1 DEF RetryInv, Retrying
<1> QED BY <1>1, RetryInit, RetryStep, PTL DEF RegSpec

-----------------------------------------------------------------------------
(* The subscriber                                                          *)

\* The entry of subscribed_, the tables and the places of the threads.
Subscriptions ==
    [state : {"none", "NOT_ACKNOWLEDGED", "ACKNOWLEDGED"}, endpoint : {"none", "current", "old"},
     udp : BOOLEAN]

Tables ==
    [subscribers : SUBSET Applications, acknowledged : SUBSET (Applications \cup {RoutingClient}),
     subscribed : Subscriptions, known : BOOLEAN, endpoint : {"none", "connecting", "established"},
     boot : Nat]

TypeInv ==
    /\ tables \in Tables
    /\ handling \in [Applications -> {"idle", "inserted", "removed", "last", "send"}]
    /\ expiry \in {"idle", "send", "delete"}
    /\ provider.boot \in Nat

\* The service stays known while the TTL timer is between the end of its
\* subscription and del_routing_info, as that holds check_ttl_mutex_.
ExpiringIsKnown == expiry # "idle" => tables.known

\* A client in the table of the event has a subscription, or the thread that
\* inserted a client is about to make one; what the TTL timer has ended is on its
\* way out.
Serving ==
    \/ happened \cap Stranding # {}
    \/ expiry # "idle"
    \/ tables.subscribers = {}
    \/ tables.subscribed # NoSubscription
    \/ \E c \in Applications : handling[c] = "inserted"

ServedInv == TypeInv /\ ExpiringIsKnown /\ Serving

-----------------------------------------------------------------------------
(* The operations on the tables                                             *)

\* What an operation on the tables may do to a subscriber: it is forgotten, or its
\* subscription stays.
Keeps(t, u) ==
    /\ u \in Tables
    /\ u.subscribers = {} \/ (u.subscribers = t.subscribers
                              /\ (t.subscribed # NoSubscription => u.subscribed # NoSubscription))

\* Ending the subscription.
LEMMA RemovedType ==
    ASSUME NEW t \in Tables
    PROVE  /\ remove_subscriptions(t) \in Tables
           /\ remove_subscriptions(t).known = t.known
           /\ remove_subscriptions(t).subscribers = t.subscribers
BY DEF remove_subscriptions, Tables, Subscriptions, NoSubscription

\* del_routing_info forgets the subscribers of a service that is known, and leaves an
\* unknown one alone.
LEMMA DeletedType ==
    ASSUME NEW t \in Tables
    PROVE  /\ del_routing_info(t) \in Tables
           /\ ~del_routing_info(t).known
           /\ t.known => del_routing_info(t).subscribers = {}
           /\ ~t.known => del_routing_info(t) = t
<1>1. CASE ~t.known
  BY <1>1 DEF del_routing_info
<1>2. CASE t.known
  <2> DEFINE s == [t.subscribed EXCEPT !.endpoint = IF @ = "current" THEN "old" ELSE @]
  <2>1. s \in Subscriptions
    BY DEF Tables, Subscriptions
  <2>2. del_routing_info(t) = [t EXCEPT !.subscribers = {}, !.acknowledged = {}, !.known = FALSE,
                                        !.endpoint = "none", !.subscribed = s]
    BY <1>2 DEF del_routing_info, Tables, Subscriptions
  <2> HIDE DEF s
  <2> QED BY <1>2, <2>1, <2>2 DEF Tables
<1> QED BY <1>1, <1>2

\* The reboot of a provider ends the subscription of a service that is known, which
\* is forgotten with its subscribers.
LEMMA ExpiredKeeps ==
    ASSUME NEW t \in Tables, provider.boot \in Nat
    PROVE  /\ Keeps(t, expire_services(t))
           /\ ~t.known => ~expire_services(t).known /\ expire_services(t).subscribers = t.subscribers
                          /\ expire_services(t).subscribed = t.subscribed
<1>1. CASE Rebooted(t)
  <2> DEFINE r == remove_subscriptions(t)
             d == del_routing_info(r)
  <2>1. r \in Tables /\ r.known /\ t.known
    BY <1>1, RemovedType DEF Rebooted
  <2>2. d \in Tables /\ d.subscribers = {}
    BY <2>1, DeletedType
  <2>3. expire_services(t) = [d EXCEPT !.boot = provider.boot]
    BY <1>1 DEF expire_services
  <2> HIDE DEF d, r
  <2> QED BY <2>1, <2>2, <2>3 DEF Keeps, Tables
<1>2. CASE ~Rebooted(t)
  <2>1. expire_services(t) = [t EXCEPT !.boot = provider.boot]
    BY <1>2 DEF expire_services
  <2> QED BY <2>1 DEF Keeps, Tables
<1> QED BY <1>1, <1>2

\* It is forgotten with its subscribers.
LEMMA KnownExpires ==
    ASSUME NEW t \in Tables, t.known, ~expire_services(t).known
    PROVE  expire_services(t).subscribers = {}
<1>1. Rebooted(t)
  BY DEF expire_services, Tables
<1> DEFINE r == remove_subscriptions(t)
           d == del_routing_info(r)
<1>2. d \in Tables /\ d.subscribers = {}
  BY RemovedType, DeletedType
<1>3. expire_services(t) = [d EXCEPT !.boot = provider.boot]
  BY <1>1 DEF expire_services
<1> HIDE DEF d, r
<1> QED BY <1>2, <1>3 DEF Tables

\* Renewing a subscription keeps it.
LEMMA RenewedKeeps ==
    ASSUME NEW t \in Tables, NEW multicast \in BOOLEAN
    PROVE  Keeps(t, resubscribe(t, multicast))
<1>1. CASE multicast /\ t.subscribed # NoSubscription
  <2> DEFINE s == [t.subscribed EXCEPT !.state = "NOT_ACKNOWLEDGED", !.endpoint = SubscriptionEndpoint(t)]
  <2>1. s \in Subscriptions /\ s # NoSubscription
    BY DEF Tables, Subscriptions, SubscriptionEndpoint, NoSubscription
  <2>2. resubscribe(t, multicast) = [t EXCEPT !.subscribed = s]
    BY <1>1 DEF resubscribe, Tables, Subscriptions
  <2> HIDE DEF s
  <2> QED BY <2>1, <2>2 DEF Keeps, Tables
<1>2. CASE ~(multicast /\ t.subscribed # NoSubscription)
  BY <1>2 DEF resubscribe, Keeps
<1> QED BY <1>1, <1>2

\* So does making the service known.
LEMMA AddedKeeps ==
    ASSUME NEW t \in Tables
    PROVE  Keeps(t, add_routing_info(t))
BY DEF Keeps, add_routing_info, Tables

\* Operations one after the other.
LEMMA KeepsTwice ==
    ASSUME NEW t, NEW u, NEW v, Keeps(t, u), Keeps(u, v)
    PROVE  Keeps(t, v)
BY DEF Keeps

\* A step that does to the tables what keeps subscribers served, and moves no thread.
LEMMA FrameKeeps ==
    ASSUME ServedInv, Keeps(tables, tables'), happened \subseteq happened', provider'.boot \in Nat,
           UNCHANGED <<handling, expiry>>, expiry # "idle" => tables'.known
    PROVE  ServedInv'
<1>1. TypeInv' /\ ExpiringIsKnown'
  BY DEF ServedInv, TypeInv, ExpiringIsKnown, Keeps
<1>2. Serving'
  BY DEF ServedInv, Serving, Keeps
<1> QED BY <1>1, <1>2 DEF ServedInv

\* What has happened has happened.
LEMMA HappensGrows ==
    ASSUME NEW what, NEW when, Happens(what, when)
    PROVE  happened \subseteq happened' /\ (when => what \in happened')
BY DEF Happens

-----------------------------------------------------------------------------
(* Each step preserves the invariant                                        *)

\* Initially there is no subscriber.
LEMMA ServedInit == SubInit => ServedInv
BY DEF SubInit, ServedInv, TypeInv, ExpiringIsKnown, Serving, Tables, Subscriptions, NoSubscription

\* The steps that leave the tables and the places of the threads alone: the calls of
\* the applications, the sends, the provider and the network.
LEMMA QuietStep ==
    ASSUME ServedInv, UNCHANGED tables, happened \subseteq happened', provider'.boot \in Nat,
           UNCHANGED <<handling, expiry>>
    PROVE  ServedInv'
BY FrameKeeps DEF ServedInv, TypeInv, ExpiringIsKnown, Keeps

\* The command of an application at the host.  Only discovery_unsubscribe ends a
\* subscription, and one that has clients is named.
LEMMA HandleStep ==
    ASSUME ServedInv, NEW c \in Applications, Handle(c)
    PROVE  ServedInv'
<1> USE DEF ServedInv, TypeInv, ExpiringIsKnown, Serving
<1>0. UNCHANGED <<expiry, provider>> /\ happened \subseteq happened'
  BY HappensGrows DEF Handle, insert_subscription, discovery_subscribe, remove_subscriber,
     last_subscriber, discovery_unsubscribe, send_stop
<1>1. CASE insert_subscription(c)
  <2>1. CASE c \in tables.subscribers
    BY <1>1, <2>1, QuietStep DEF insert_subscription
  <2>2. CASE c \notin tables.subscribers
    <3>1. /\ handling' = [handling EXCEPT ![c] = "inserted"]
          /\ tables' = [tables EXCEPT !.subscribers = tables.subscribers \cup {c}]
      BY <1>1, <2>2 DEF insert_subscription
    <3>2. TypeInv' /\ ExpiringIsKnown'
      BY <1>0, <3>1 DEF Tables
    <3>3. handling'[c] = "inserted"
      BY <3>1
    <3> QED BY <3>2, <3>3
  <2> QED BY <2>1, <2>2
<1>2. CASE discovery_subscribe(c)
  <2> DEFINE s == [state |-> "NOT_ACKNOWLEDGED", udp |-> tables.endpoint = "established",
                   endpoint |-> SubscriptionEndpoint(tables)]
  <2>1. s \in Subscriptions /\ s # NoSubscription
    BY DEF Subscriptions, SubscriptionEndpoint, NoSubscription
  <2>2. /\ handling' = [handling EXCEPT ![c] = "idle"]
        /\ tables' = IF tables.subscribed # NoSubscription THEN tables
                     ELSE [tables EXCEPT !.subscribed = s]
    BY <1>2 DEF discovery_subscribe
  <2> HIDE DEF s
  <2>3. tables' \in Tables /\ tables'.known = tables.known /\ tables'.subscribed # NoSubscription
    BY <2>1, <2>2 DEF Tables
  <2> QED BY <1>0, <2>2, <2>3
<1>3. CASE remove_subscriber(c)
  <2>1. /\ handling[c] = "idle"
        /\ handling' = [handling EXCEPT ![c] = "removed"]
        /\ tables' = [tables EXCEPT !.subscribers = tables.subscribers \ {c}]
    BY <1>3 DEF remove_subscriber, Take
  <2>2. TypeInv' /\ ExpiringIsKnown'
    BY <1>0, <2>1 DEF Tables
  <2>3. \A d \in Applications : handling[d] = "inserted" => handling'[d] = "inserted"
    BY <2>1
  <2>4. tables'.subscribers \subseteq tables.subscribers /\ tables'.subscribed = tables.subscribed
    BY <2>1 DEF Tables
  <2> QED BY <1>0, <2>2, <2>3, <2>4
<1>4. CASE last_subscriber(c)
  <2> DEFINE last == tables.subscribers = {}
  <2>1. /\ handling[c] = "removed"
        /\ handling' = [handling EXCEPT ![c] = IF last THEN "last" ELSE "idle"]
        /\ tables' = [tables EXCEPT !.acknowledged =
               IF last THEN tables.acknowledged \ {c} ELSE tables.acknowledged]
    BY <1>4 DEF last_subscriber
  <2>2. TypeInv' /\ ExpiringIsKnown'
    BY <1>0, <2>1 DEF Tables
  <2>3. \A d \in Applications : handling[d] = "inserted" => handling'[d] = "inserted"
    BY <2>1
  <2>4. tables'.subscribers = tables.subscribers /\ tables'.subscribed = tables.subscribed
    BY <2>1 DEF Tables
  <2> QED BY <1>0, <2>2, <2>3, <2>4
<1>5. CASE discovery_unsubscribe(c)
  <2>1. /\ handling[c] = "last"
        /\ handling' = [handling EXCEPT ![c] =
               IF tables.subscribed.endpoint = "none" THEN "idle" ELSE "send"]
        /\ tables' = remove_subscriptions(tables)
    BY <1>5 DEF discovery_unsubscribe, remove_subscriptions
  <2>2. tables' \in Tables /\ tables'.known = tables.known /\ tables'.subscribers = tables.subscribers
    BY <2>1, RemovedType
  <2>3. TypeInv' /\ ExpiringIsKnown'
    BY <1>0, <2>1, <2>2
  <2>4. \A d \in Applications : handling[d] = "inserted" => handling'[d] = "inserted"
    BY <2>1
  <2>5. tables.subscribers # {} /\ tables.subscribed # NoSubscription => "joined" \in happened'
    BY <1>5, HappensGrows DEF discovery_unsubscribe
  <2> QED BY <1>0, <2>2, <2>3, <2>4, <2>5 DEF Stranding
<1>6. CASE send_stop(c)
  <2>1. handling[c] = "send" /\ handling' = [handling EXCEPT ![c] = "idle"] /\ tables' = tables
    BY <1>6 DEF send_stop
  <2>2. \A d \in Applications : handling[d] = "inserted" => handling'[d] = "inserted"
    BY <2>1
  <2> QED BY <1>0, <2>1, <2>2
<1> QED BY <1>1, <1>2, <1>3, <1>4, <1>5, <1>6 DEF Handle

\* An offer renews the subscription and makes the service known.
LEMMA OfferStep ==
    ASSUME ServedInv, NEW multicast \in BOOLEAN, process_offer(multicast)
    PROVE  ServedInv'
<1> DEFINE expired == expire_services(tables)
           renewed == resubscribe(expired, multicast)
<1>1. tables' = add_routing_info(renewed) /\ expiry = "idle"
  BY DEF process_offer
<1>2. Keeps(tables, expired)
  BY ExpiredKeeps DEF ServedInv, TypeInv
<1>3. Keeps(expired, renewed)
  BY <1>2, RenewedKeeps DEF Keeps
<1>4. Keeps(renewed, tables')
  BY <1>1, <1>3, AddedKeeps DEF Keeps
<1>5. Keeps(tables, tables')
  BY <1>2, <1>3, <1>4, KeepsTwice
<1>6. UNCHANGED <<handling, expiry, provider, happened>>
  BY DEF process_offer
<1> QED BY <1>1, <1>5, <1>6, FrameKeeps DEF ServedInv, TypeInv

\* A StopOffer forgets the subscribers of a service that is known.
LEMMA StopOfferStep ==
    ASSUME ServedInv, NEW received \in BOOLEAN, process_stop_offer(received)
    PROVE  ServedInv'
<1>1. /\ expiry = "idle"
      /\ happened \subseteq happened'
      /\ received /\ ~tables.known /\ tables.subscribed # NoSubscription => "unknown" \in happened'
      /\ UNCHANGED <<handling, expiry>>
      /\ provider'.boot = provider.boot
  <2>1. provider' = [provider EXCEPT !.up = FALSE, !.subscribed = FALSE]
    BY DEF process_stop_offer
  <2> QED BY <2>1, HappensGrows DEF process_stop_offer
<1>2. CASE ~received
  BY <1>1, <1>2, QuietStep DEF process_stop_offer, ServedInv, TypeInv
<1>3. CASE received
  <2> DEFINE expired == expire_services(tables)
             removed == remove_subscriptions(expired)
  <2>1. tables' = del_routing_info(removed)
    BY <1>3 DEF process_stop_offer
  <2>2. Keeps(tables, expired)
    BY ExpiredKeeps DEF ServedInv, TypeInv
  <2>3. removed \in Tables /\ removed.known = expired.known /\ removed.subscribers = expired.subscribers
    BY <2>2, RemovedType DEF Keeps
  <2>4. /\ tables' \in Tables
        /\ expired.known => tables'.subscribers = {}
        /\ ~expired.known => tables' = removed
    BY <2>1, <2>3, DeletedType
  <2>5. TypeInv' /\ ExpiringIsKnown'
    BY <1>1, <2>4 DEF ServedInv, TypeInv, ExpiringIsKnown
  <2>6. CASE tables.known
    <3>1. ~expired.known => expired.subscribers = {}
      BY <2>6, KnownExpires DEF ServedInv, TypeInv
    <3>2. tables'.subscribers = {}
      BY <2>3, <2>4, <3>1
    <3> QED BY <2>5, <3>2 DEF ServedInv, Serving
  <2>7. CASE ~tables.known
    <3>1. tables'.subscribers = tables.subscribers
      BY <2>3, <2>4, <2>7, ExpiredKeeps DEF ServedInv, TypeInv
    <3>2. tables.subscribed # NoSubscription => happened' \cap Stranding # {}
      BY <1>1, <1>3, <2>7 DEF Stranding
    <3> QED BY <1>1, <2>5, <3>1, <3>2 DEF ServedInv, Serving
  <2> QED BY <2>6, <2>7
<1> QED BY <1>2, <1>3

\* An answer touches the state of the subscription alone.
LEMMA AnswerStep ==
    ASSUME ServedInv, process_answer
    PROVE  ServedInv'
<1> DEFINE expired == expire_services(tables)
           accepted == Head(toHost) = "ack" /\ expired.subscribed.state = "NOT_ACKNOWLEDGED"
           s == [expired.subscribed EXCEPT !.state = "ACKNOWLEDGED"]
<1>1. Keeps(tables, expired)
  BY ExpiredKeeps DEF ServedInv, TypeInv
<1>2. Keeps(expired, tables')
  <2>1. expired \in Tables
    BY <1>1 DEF Keeps
  <2>2. CASE ~accepted
    <3>1. tables' = expired
      BY <2>2 DEF process_answer
    <3> QED BY <2>1, <3>1 DEF Keeps
  <2>3. CASE accepted
    <3>1. tables' = [expired EXCEPT !.subscribed = s,
                                    !.acknowledged = expired.acknowledged \cup {RoutingClient}]
      BY <2>1, <2>3 DEF process_answer, Tables, Subscriptions
    <3>2. s \in Subscriptions /\ s # NoSubscription
      BY <2>1 DEF Tables, Subscriptions, NoSubscription
    <3> HIDE DEF s, expired
    <3> QED BY <2>1, <3>1, <3>2 DEF Keeps, Tables
  <2> QED BY <2>2, <2>3
<1>3. Keeps(tables, tables')
  BY <1>1, <1>2, KeepsTwice
<1>4. UNCHANGED <<handling, expiry, provider, happened>> /\ expiry = "idle"
  BY DEF process_answer
<1> QED BY <1>3, <1>4, FrameKeeps DEF ServedInv, TypeInv

\* The TTL timer ends the subscription and then forgets the subscribers.
LEMMA TimerStep ==
    ASSUME ServedInv, update_routing_info \/ send_expired \/ delete_expired
    PROVE  ServedInv'
<1> USE DEF ServedInv, TypeInv, ExpiringIsKnown, Serving
<1>1. CASE update_routing_info
  <2>1. /\ tables' = remove_subscriptions(tables) /\ tables.known
        /\ expiry' \in {"send", "delete"}
        /\ UNCHANGED <<handling, provider>>
    BY <1>1 DEF update_routing_info
  <2>2. tables' \in Tables /\ tables'.known
    BY <2>1, RemovedType
  <2> QED BY <2>1, <2>2
<1>2. CASE send_expired
  BY <1>2 DEF send_expired
<1>3. CASE delete_expired
  <2>1. tables' = del_routing_info(tables) /\ expiry = "delete" /\ expiry' = "idle"
        /\ UNCHANGED <<handling, provider>>
    BY <1>3 DEF delete_expired
  <2>2. tables' \in Tables /\ tables'.subscribers = {}
    BY <2>1, DeletedType
  <2> QED BY <2>1, <2>2
<1> QED BY <1>1, <1>2, <1>3

\* The connected endpoint makes a subscription anew.
LEMMA ConnectedStep ==
    ASSUME ServedInv, on_endpoint_connected
    PROVE  ServedInv'
<1> DEFINE s == tables.subscribed
           ready == s.endpoint = "current" \/ (s.endpoint = "old" /\ s.udp)
           r == IF ready THEN [state |-> "NOT_ACKNOWLEDGED", udp |-> TRUE, endpoint |-> "current"]
                         ELSE s
<1>1. tables' = [tables EXCEPT !.endpoint = "established", !.subscribed = r]
  BY DEF on_endpoint_connected
<1>2. r \in Subscriptions /\ (s # NoSubscription => r # NoSubscription)
  BY DEF ServedInv, TypeInv, Tables, Subscriptions, NoSubscription
<1> HIDE DEF r
<1>3. Keeps(tables, tables') /\ tables'.known = tables.known
  BY <1>1, <1>2 DEF ServedInv, TypeInv, Keeps, Tables
<1> QED BY <1>3, FrameKeeps DEF on_endpoint_connected, ServedInv, TypeInv, ExpiringIsKnown

\* Every step preserves the invariant.
LEMMA ServedStep == ServedInv /\ [SubNext]_subVars => ServedInv'
<1> SUFFICES ASSUME ServedInv, [SubNext]_subVars PROVE ServedInv'
  OBVIOUS
<1>0. provider.boot \in Nat
  BY DEF ServedInv, TypeInv
<1>1. CASE UNCHANGED subVars
  BY <1>0, <1>1, QuietStep DEF subVars
<1>2. ASSUME NEW c \in Applications, subscribe(c) \/ unsubscribe(c) PROVE ServedInv'
  BY <1>0, <1>2, QuietStep DEF subscribe, unsubscribe
<1>3. ASSUME NEW accept \in BOOLEAN, Receive(accept) PROVE ServedInv'
  <2>1. provider'.boot = provider.boot
    <3>1. \E b : provider' = [provider EXCEPT !.subscribed = b]
      BY <1>3 DEF Receive
    <3> QED BY <3>1
  <2> QED BY <1>0, <1>3, <2>1, QuietStep DEF Receive
<1>4. CASE send_connected
  BY <1>0, <1>4, QuietStep, HappensGrows DEF send_connected
<1>5. CASE OfferAgain
  <2>1. provider'.boot = provider.boot
    BY <1>5 DEF OfferAgain
  <2> QED BY <1>0, <1>5, <2>1, QuietStep DEF OfferAgain
<1>6. CASE Reboot
  BY <1>0, <1>6, QuietStep DEF Reboot
<1>7. CASE Lose
  BY <1>0, <1>7, QuietStep, HappensGrows DEF Lose
<1> QED BY <1>1, <1>2, <1>3, <1>4, <1>5, <1>6, <1>7, HandleStep, OfferStep, StopOfferStep,
           AnswerStep, TimerStep, ConnectedStep DEF SubNext

-----------------------------------------------------------------------------
\* A client in the table of the event always has a subscription once the host has
\* finished what it has begun, unless a client joined while the last one left or a
\* StopOffer of an unknown service came: whatever the number of applications, calls
\* and disruptions (routing_manager_impl::subscribe, unsubscribe, del_routing_info,
\* service_discovery_impl::update_routing_info).
THEOREM SubscribersServed == SubInit /\ [][SubNext]_subVars => []SubscriberIsServed
<1>1. ServedInv => SubscriberIsServed
  <2> SUFFICES ASSUME ServedInv, ~SubscriberIsServed PROVE FALSE
    OBVIOUS
  <2>1. \A c \in Applications : handling[c] = "idle"
    BY DEF SubscriberIsServed
  <2> QED BY <2>1 DEF ServedInv, Serving, SubscriberIsServed
<1> QED BY <1>1, ServedInit, ServedStep, PTL

=============================================================================
