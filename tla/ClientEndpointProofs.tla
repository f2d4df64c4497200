------------------------ MODULE ClientEndpointProofs ------------------------
(***************************************************************************)
(* A TCP client endpoint implements OrderedChannel, its state has its      *)
(* type, and is_sending_ always stands for a write that is under way, for  *)
(* any number of messages, faults and restarts.                            *)
(*                                                                         *)
(* Every part of a handler is shown to keep Sound, which is about the      *)
(* queue and the writes outstanding; the handlers are compositions of      *)
(* those parts.                                                            *)
(***************************************************************************)
EXTENDS ClientEndpoint, TLAPS

\* As long as every write was the front of the queue when it was started, the
\* writes outstanding are in order, none is behind the queue or before what was
\* delivered, and the queue is in order.
Ordered(w, q, d) ==
    /\ \A i, j \in DOMAIN q : i < j => q[i] < q[j]
    /\ \A i, j \in DOMAIN w : i < j => w[i] <= w[j]
    /\ \A i \in DOMAIN w, j \in DOMAIN q : w[i] <= q[j]
    /\ \A i \in DOMAIN w : d <= w[i]
    /\ \A j \in DOMAIN q : d <= q[j]

\* h names no message that was not accepted yet.
Known(h, n) == h.op = "send_queued" => h.entry \in 1..n

\* The endpoint e when n messages were accepted and d was delivered last; kept
\* tells whether every write was the front of the queue.
Sound(e, n, d, kept) ==
    /\ e \in Endpoints
    /\ n \in 0..MaxMessages /\ d \in 0..n
    /\ e.queue_ \in Seq(1..n) /\ e.writes \in Seq(1..n)
    /\ \A i \in DOMAIN e.strand_ : Known(e.strand_[i], n)
    /\ kept => Ordered(e.writes, e.queue_, d)

-----------------------------------------------------------------------------
(* Sequences                                                               *)

\* Appending to a sequence: its type, its length and its elements.
LEMMA Appended ==
    ASSUME NEW S, NEW s \in Seq(S), NEW x \in S
    PROVE  /\ Append(s, x) \in Seq(S) /\ Len(Append(s, x)) = Len(s) + 1
           /\ DOMAIN Append(s, x) = 1..(Len(s) + 1) /\ DOMAIN s = 1..Len(s) /\ Len(s) \in Nat
           /\ \A i \in 1..Len(s) : Append(s, x)[i] = s[i]
           /\ Append(s, x)[Len(s) + 1] = x /\ Append(s, x) # <<>>
  OBVIOUS

\* The elements of a sequence have its type.
LEMMA Elements ==
    ASSUME NEW S, NEW s \in Seq(S)
    PROVE  \A i \in DOMAIN s : s[i] \in S
  OBVIOUS

\* Taking the head of a sequence: what the tail is.
LEMMA Tailed ==
    ASSUME NEW S, NEW s \in Seq(S), s # <<>>
    PROVE  /\ Tail(s) \in Seq(S) /\ Head(s) \in S /\ Head(s) = s[1]
           /\ Len(s) \in Nat \ {0} /\ Len(Tail(s)) = Len(s) - 1
           /\ DOMAIN s = 1..Len(s) /\ DOMAIN Tail(s) = 1..(Len(s) - 1)
           /\ \A i \in 1..(Len(s) - 1) : Tail(s)[i] = s[i + 1]
  OBVIOUS

\* Joining two sequences: every element is one of theirs.
LEMMA Joined ==
    ASSUME NEW S, NEW s \in Seq(S), NEW t \in Seq(S)
    PROVE  /\ s \o t \in Seq(S)
           /\ \A i \in DOMAIN (s \o t) : (\E j \in DOMAIN s : (s \o t)[i] = s[j])
                                         \/ (\E j \in DOMAIN t : (s \o t)[i] = t[j])
<1>1. s \o t \in Seq(S) /\ Len(s \o t) = Len(s) + Len(t) /\ Len(s) \in Nat /\ Len(t) \in Nat
  OBVIOUS
<1>2. ASSUME NEW i \in DOMAIN (s \o t)
      PROVE  (\E j \in DOMAIN s : (s \o t)[i] = s[j]) \/ (\E j \in DOMAIN t : (s \o t)[i] = t[j])
  <2>1. i \in 1..(Len(s) + Len(t)) /\ DOMAIN s = 1..Len(s) /\ DOMAIN t = 1..Len(t)
    BY <1>1
  <2>2. CASE i <= Len(s)
    BY <2>1, <2>2, <1>1
  <2>3. CASE i > Len(s)
    <3>1. (s \o t)[i] = t[i - Len(s)] /\ i - Len(s) \in 1..Len(t)
      BY <2>1, <2>3, <1>1
    <3> QED BY <3>1, <2>1
  <2> QED BY <2>1, <2>2, <2>3, <1>1
<1> QED BY <1>1, <1>2

-----------------------------------------------------------------------------
(* The parts of the handlers                                               *)

\* What only clears the queue or the writes, and posts nothing new, keeps Sound.
LEMMA SoundWhenCleared ==
    ASSUME NEW n, NEW d, NEW kept, NEW e, Sound(e, n, d, kept), NEW f \in Endpoints,
           f.queue_ \in {e.queue_, <<>>}, f.writes \in {e.writes, <<>>},
           \A i \in DOMAIN f.strand_ : Known(f.strand_[i], n)
    PROVE  Sound(f, n, d, kept)
<1>1. f.queue_ \in Seq(1..n) /\ f.writes \in Seq(1..n)
  <2>1. n \in Nat /\ e.queue_ \in Seq(1..n) /\ e.writes \in Seq(1..n)
    BY EndpointAssumption DEF Sound
  <2>2. <<>> \in Seq(1..n)
    BY <2>1
  <2> QED BY <2>1, <2>2
<1>2. ASSUME kept PROVE Ordered(f.writes, f.queue_, d)
  <2>1. Ordered(e.writes, e.queue_, d)
    BY <1>2 DEF Sound
  <2> QED BY <2>1 DEF Ordered
<1> QED BY <1>1, <1>2 DEF Sound

\* Posting a handler on strand_.
LEMMA PostSound ==
    ASSUME NEW n, NEW d, NEW kept, NEW e, Sound(e, n, d, kept), NEW h \in Handlers, Known(h, n)
    PROVE  Sound(Post(e, h), n, d, kept)
<1> DEFINE f == Post(e, h)
<1>1. e \in Endpoints /\ e.strand_ \in Seq(Handlers)
  BY DEF Sound, Endpoints
<1>2. f \in Endpoints /\ f.queue_ = e.queue_ /\ f.writes = e.writes /\ f.strand_ = Append(e.strand_, h)
  BY <1>1, Appended DEF Post, Endpoints
<1>3. ASSUME NEW i \in DOMAIN f.strand_ PROVE Known(f.strand_[i], n)
  BY <1>1, <1>2, <1>3, Appended DEF Sound
<1> QED BY <1>2, <1>3, SoundWhenCleared

\* Aging the completions on strand_ changes no message they name.
LEMMA AgedHandler ==
    ASSUME NEW n, NEW h \in Handlers, Known(h, n)
    PROVE  LET a == IF h.op \in {"connected", "sent"} THEN [h EXCEPT !.stale = TRUE] ELSE h
           IN  a \in Handlers /\ Known(a, n)
<1>1. CASE h.op \in {"connected", "sent"}
  <2>1. h \in [op : {"connected", "sent"}, err : Errors, stale : BOOLEAN]
    BY <1>1 DEF Handlers
  <2>2. /\ [h EXCEPT !.stale = TRUE] \in [op : {"connected", "sent"}, err : Errors, stale : BOOLEAN]
        /\ [h EXCEPT !.stale = TRUE].op # "send_queued"
    BY <2>1
  <2> QED BY <1>1, <2>2 DEF Handlers, Known
<1>2. CASE h.op \notin {"connected", "sent"}
  BY <1>2
<1> QED BY <1>1, <1>2

\* A sequence of aborted completions.
LEMMA AbortedHandlers ==
    ASSUME NEW n, NEW op \in {"connected", "sent"}, NEW k \in Nat
    PROVE  LET s == [i \in 1..k |-> [op |-> op, err |-> "aborted", stale |-> TRUE]]
           IN  s \in Seq(Handlers) /\ \A i \in DOMAIN s : Known(s[i], n)
<1>1. [op |-> op, err |-> "aborted", stale |-> TRUE] \in Handlers
  BY DEF Handlers, Errors
<1> QED BY <1>1 DEF Known

\* Closing the socket clears the writes and posts completions only.
LEMMA CloseSound ==
    ASSUME NEW n, NEW d, NEW kept, NEW e, Sound(e, n, d, kept)
    PROVE  Sound(shutdown_and_close_socket(e), n, d, kept)
<1> DEFINE f == shutdown_and_close_socket(e)
           Age(h) == IF h.op \in {"connected", "sent"} THEN [h EXCEPT !.stale = TRUE] ELSE h
           aged == [i \in DOMAIN e.strand_ |-> Age(e.strand_[i])]
           ended(op, k) == [i \in 1..k |-> [op |-> op, err |-> "aborted", stale |-> TRUE]]
           connected == ended("connected", IF e.link = "connecting" THEN 1 ELSE 0)
           sent == ended("sent", Len(e.writes))
           OnlyKnown(s) == \A i \in DOMAIN s : Known(s[i], n)
<1>1. e \in Endpoints /\ e.strand_ \in Seq(Handlers) /\ e.writes \in Seq(1..MaxMessages)
  BY DEF Sound, Endpoints
<1>2. aged \in Seq(Handlers) /\ OnlyKnown(aged)
  <2>1. ASSUME NEW i \in DOMAIN e.strand_ PROVE Age(e.strand_[i]) \in Handlers /\ Known(Age(e.strand_[i]), n)
    BY <1>1, AgedHandler DEF Sound
  <2> HIDE DEF Age
  <2> QED BY <1>1, <2>1
<1>3. connected \in Seq(Handlers) /\ OnlyKnown(connected)
  BY AbortedHandlers
<1>4. sent \in Seq(Handlers) /\ OnlyKnown(sent)
  <2>1. Len(e.writes) \in Nat
    BY <1>1
  <2> QED BY <2>1, AbortedHandlers
<1>5. (aged \o connected) \o sent \in Seq(Handlers) /\ OnlyKnown((aged \o connected) \o sent)
  <2> HIDE DEF aged, connected, sent
  <2>1. aged \o connected \in Seq(Handlers) /\ OnlyKnown(aged \o connected)
    BY <1>2, <1>3, Joined
  <2> QED BY <2>1, <1>4, Joined
<1>6. CASE e.open
  <2>1. f = [e EXCEPT !.state_ = "CLOSED", !.open = FALSE, !.link = "none", !.writes = <<>>, !.reads = 0,
                      !.strand_ = (aged \o connected) \o sent]
    BY <1>6 DEF shutdown_and_close_socket
  <2> HIDE DEF f, aged, connected, sent, OnlyKnown
  <2>2. f \in Endpoints /\ f.queue_ = e.queue_ /\ f.writes = <<>> /\ f.strand_ = (aged \o connected) \o sent
    <3>1. <<>> \in Seq(1..MaxMessages)
      BY EndpointAssumption
    <3> QED BY <1>1, <1>5, <2>1, <3>1 DEF Endpoints
  <2>3. \A i \in DOMAIN f.strand_ : Known(f.strand_[i], n)
    BY <2>2, <1>5 DEF OnlyKnown
  <2> QED BY <2>2, <2>3, SoundWhenCleared DEF f
<1>7. CASE ~e.open
  <2>1. f = [e EXCEPT !.state_ = "CLOSED"]
    BY <1>7 DEF shutdown_and_close_socket
  <2> HIDE DEF f
  <2>2. f \in Endpoints /\ f.queue_ = e.queue_ /\ f.writes = e.writes /\ f.strand_ = e.strand_
    BY <1>1, <2>1 DEF Endpoints
  <2> QED BY <2>2, SoundWhenCleared DEF Sound, f
<1> QED BY <1>6, <1>7

\* Fields that neither the queue, the writes nor strand_ depend on may change.
LEMMA SoundWhenSame ==
    ASSUME NEW n, NEW d, NEW kept, NEW e, Sound(e, n, d, kept), NEW f \in Endpoints,
           f.queue_ = e.queue_, f.writes = e.writes, f.strand_ = e.strand_
    PROVE  Sound(f, n, d, kept)
BY SoundWhenCleared DEF Sound

\* Starting a write of the front of the queue, or of any message once the account
\* is lost.
LEMMA SendQueuedSound ==
    ASSUME NEW n, NEW d, NEW kept, NEW e, Sound(e, n, d, kept), NEW m \in 1..n,
           kept => ~e.open \/ (e.queue_ # <<>> /\ m = Head(e.queue_))
    PROVE  Sound(send_queued(e, m), n, d, kept)
<1> DEFINE f == send_queued(e, m)
<1>1. /\ e \in Endpoints /\ n \in Nat /\ m \in 1..MaxMessages /\ e.strand_ \in Seq(Handlers)
      /\ e.queue_ \in Seq(1..n) /\ e.writes \in Seq(1..n) /\ e.writes \in Seq(1..MaxMessages)
      /\ d \in 0..n
  BY EndpointAssumption DEF Sound, Endpoints
<1>2. CASE ~e.open
  <2>1. f \in Endpoints /\ f.queue_ = e.queue_ /\ f.writes = e.writes /\ f.strand_ = e.strand_
    BY <1>1, <1>2 DEF send_queued, Endpoints
  <2> QED BY <2>1, SoundWhenSame
<1>3. CASE e.open
  <2>1. Append(e.writes, m) \in Seq(1..n) /\ Append(e.writes, m) \in Seq(1..MaxMessages)
    BY <1>1, Appended
  <2>2. f \in Endpoints /\ f.queue_ = e.queue_ /\ f.writes = Append(e.writes, m) /\ f.strand_ = e.strand_
    BY <1>1, <1>3, <2>1 DEF send_queued, Endpoints
  <2>3. ASSUME kept PROVE Ordered(Append(e.writes, m), e.queue_, d)
    <3>1. Ordered(e.writes, e.queue_, d) /\ e.queue_ # <<>> /\ m = Head(e.queue_)
      BY <1>3, <2>3 DEF Sound
    <3>2. Len(e.queue_) \in Nat \ {0} /\ DOMAIN e.queue_ = 1..Len(e.queue_) /\ m = e.queue_[1]
      BY <1>1, <3>1, Tailed
    <3>3. \A j \in DOMAIN e.queue_ : m <= e.queue_[j] /\ e.queue_[j] \in Nat
      <4>1. \A j \in DOMAIN e.queue_ : e.queue_[j] \in 1..n
        BY <1>1, Elements
      <4>2. ASSUME NEW j \in DOMAIN e.queue_ PROVE m <= e.queue_[j] /\ e.queue_[j] \in Nat
        <5>1. 1 \in DOMAIN e.queue_ /\ j \in 1..Len(e.queue_) /\ e.queue_[j] \in Nat /\ m \in Nat
          BY <1>1, <4>1, <3>2
        <5>2. 1 < j => m < e.queue_[j]
          BY <5>1, <3>1, <3>2 DEF Ordered
        <5> QED BY <5>1, <5>2, <3>2
      <4> QED BY <4>2
    <3>4. d <= m /\ \A i \in DOMAIN e.writes : e.writes[i] <= m
      BY <3>1, <3>2 DEF Ordered
    <3>5. /\ DOMAIN Append(e.writes, m) = 1..(Len(e.writes) + 1) /\ DOMAIN e.writes = 1..Len(e.writes)
          /\ Len(e.writes) \in Nat /\ Append(e.writes, m)[Len(e.writes) + 1] = m
          /\ \A i \in 1..Len(e.writes) : Append(e.writes, m)[i] = e.writes[i]
      BY <1>1, Appended
    <3> DEFINE w == Append(e.writes, m)
    <3> HIDE DEF w
    <3>6. \A i, j \in DOMAIN w : i < j => w[i] <= w[j]
      BY <3>1, <3>4, <3>5 DEF w, Ordered
    <3>7. \A i \in DOMAIN w : d <= w[i]
      BY <3>1, <3>4, <3>5 DEF w, Ordered
    <3>8. \A i \in DOMAIN w, j \in DOMAIN e.queue_ : w[i] <= e.queue_[j]
      BY <3>1, <3>3, <3>5 DEF w, Ordered
    <3> QED BY <3>1, <3>6, <3>7, <3>8 DEF w, Ordered
  <2> HIDE DEF f
  <2> QED BY <2>1, <2>2, <2>3 DEF Sound, f
<1> QED BY <1>2, <1>3

\* Timers, notifications to the host and the state of the connection leave the
\* queue alone.
LEMMA PlainSound ==
    ASSUME NEW n, NEW d, NEW kept, NEW e, Sound(e, n, d, kept)
    PROVE  /\ Sound(receive(e), n, d, kept) /\ Sound(start_connect_timer(e), n, d, kept)
           /\ Sound(CancelSentTimer(e), n, d, kept) /\ Sound(on_connect(e), n, d, kept)
           /\ Sound(on_disconnect(e), n, d, kept) /\ Sound(set_established(e), n, d, kept)
<1> DEFINE Same(f) == f \in Endpoints /\ f.queue_ = e.queue_ /\ f.writes = e.writes /\ f.strand_ = e.strand_
<1>1. e \in Endpoints
  BY DEF Sound
<1>2. Same(receive(e))
  <2>1. CASE e.open
    <3>1. e.reads + 1 \in Nat
      BY <1>1 DEF Endpoints
    <3>2. receive(e) = [e EXCEPT !.reads = e.reads + 1]
      BY <2>1 DEF receive
    <3> QED BY <1>1, <3>1, <3>2 DEF Endpoints
  <2>2. CASE ~e.open
    BY <1>1, <2>2 DEF receive
  <2> QED BY <2>1, <2>2
<1>3. Same(start_connect_timer(e))
  BY <1>1 DEF start_connect_timer, Endpoints
<1>4. Same(CancelSentTimer(e))
  <2>1. CASE e.sent_timer_
    BY <1>1, <2>1 DEF CancelSentTimer, Endpoints, TimerHandlers
  <2>2. CASE ~e.sent_timer_
    BY <1>1, <2>2 DEF CancelSentTimer
  <2> QED BY <2>1, <2>2
<1>5. Same(on_connect(e))
  <2>1. CASE e.state_ = "ESTABLISHED"
    BY <1>1, <2>1 DEF on_connect
  <2>2. CASE e.state_ # "ESTABLISHED"
    BY <1>1, <2>2 DEF on_connect, Endpoints, TimerHandlers
  <2> QED BY <2>1, <2>2
<1>6. Same(on_disconnect(e))
  BY <1>1 DEF on_disconnect, Endpoints
<1>7. Same(set_established(e))
  <2>1. CASE e.state_ = "CONNECTING"
    BY <1>1, <2>1 DEF set_established
  <2>2. CASE e.state_ # "CONNECTING"
    BY <1>1, <2>2 DEF set_established, Endpoints
  <2> QED BY <2>1, <2>2
<1> QED BY <1>2, <1>3, <1>4, <1>5, <1>6, <1>7, SoundWhenSame

\* A restart drops the queue or only counts.
LEMMA RestartSound ==
    ASSUME NEW n, NEW d, NEW kept, NEW e, Sound(e, n, d, kept), NEW force \in BOOLEAN, NEW late \in BOOLEAN
    PROVE  Sound(restart(e, force, late), n, d, kept)
<1>1. CASE RestartIsAborted(e, force, late)
  <2> DEFINE f == restart(e, force, late)
  <2>1. e \in Endpoints /\ e.aborted_restart_count_ \in 0..tcp_restart_aborts_max_
    BY DEF Sound, Endpoints
  <2>2. e.aborted_restart_count_ + 1 \in 0..tcp_restart_aborts_max_
    BY <1>1, <2>1, EndpointAssumption DEF RestartIsAborted
  <2>3. f = [e EXCEPT !.aborted_restart_count_ = @ + 1]
    BY <1>1 DEF restart
  <2>4. f \in Endpoints /\ f.queue_ = e.queue_ /\ f.writes = e.writes /\ f.strand_ = e.strand_
    BY <2>1, <2>2, <2>3 DEF Endpoints
  <2> HIDE DEF f
  <2> QED BY <2>4, SoundWhenSame DEF f
<1>2. CASE ~RestartIsAborted(e, force, late)
  <2> DEFINE c == shutdown_and_close_socket(e)
             f == [c EXCEPT !.state_ = "CONNECTING", !.was_not_connected_ = TRUE,
                            !.queue_ = <<>>, !.is_sending_ = FALSE]
  <2>1. Sound(c, n, d, kept)
    BY CloseSound
  <2>2. restart(e, force, late) = start_connect_timer(f)
    BY <1>2 DEF restart
  <2> HIDE DEF c
  <2>3. f \in Endpoints /\ f.queue_ = <<>> /\ f.writes = c.writes /\ f.strand_ = c.strand_
    <3>1. <<>> \in Seq(1..MaxMessages)
      BY EndpointAssumption
    <3> QED BY <2>1, <3>1 DEF Sound, Endpoints
  <2> HIDE DEF f
  <2>4. Sound(f, n, d, kept)
    <3>1. \A i \in DOMAIN f.strand_ : Known(f.strand_[i], n)
      BY <2>1, <2>3 DEF Sound
    <3> QED BY <2>1, <2>3, <3>1, SoundWhenCleared
  <2> QED BY <2>2, <2>4, PlainSound
<1> QED BY <1>1, <1>2

\* Resuming a queue that a closed socket held up writes its front.
LEMMA ResumeSound ==
    ASSUME NEW n, NEW d, NEW kept, NEW e, Sound(e, n, d, kept)
    PROVE  Sound(Resume(e), n, d, kept)
<1>1. CASE ~e.was_not_connected_
  BY <1>1 DEF Resume
<1>2. CASE e.was_not_connected_ /\ e.queue_ = <<>>
  <2> DEFINE f == [e EXCEPT !.was_not_connected_ = FALSE]
  <2>1. f \in Endpoints /\ f.queue_ = e.queue_ /\ f.writes = e.writes /\ f.strand_ = e.strand_
    BY DEF Sound, Endpoints
  <2>2. Resume(e) = f
    BY <1>2 DEF Resume
  <2> HIDE DEF f
  <2> QED BY <2>1, <2>2, SoundWhenSame
<1>3. CASE e.was_not_connected_ /\ e.queue_ # <<>>
  <2> DEFINE f == [e EXCEPT !.was_not_connected_ = FALSE, !.is_sending_ = TRUE]
  <2>1. f \in Endpoints /\ f.queue_ = e.queue_ /\ f.writes = e.writes /\ f.strand_ = e.strand_
    BY DEF Sound, Endpoints
  <2>2. Resume(e) = send_queued(f, Head(e.queue_))
    BY <1>3 DEF Resume
  <2>3. Head(e.queue_) \in 1..n
    BY <1>3, Tailed DEF Sound
  <2> HIDE DEF f
  <2>4. Sound(f, n, d, kept)
    BY <2>1, SoundWhenSame
  <2> QED BY <1>3, <2>1, <2>2, <2>3, <2>4, SendQueuedSound
<1> QED BY <1>1, <1>2, <1>3

\* The end of a connection attempt, and of one whose timer could be cancelled.
LEMMA ConnectCbkSound ==
    ASSUME NEW n, NEW d, NEW kept, NEW e, Sound(e, n, d, kept), NEW err
    PROVE  Sound(connect_cbk(e, err), n, d, kept) /\ Sound(cancel_and_connect_cbk(e, err), n, d, kept)
<1>1. ASSUME NEW x, Sound(x, n, d, kept) PROVE Sound(connect_cbk(x, err), n, d, kept)
  <2>1. CASE err = "aborted" \/ x.sending_blocked_
    BY <1>1, <2>1, CloseSound DEF connect_cbk
  <2>2. CASE ~(err = "aborted" \/ x.sending_blocked_) /\ err = "error"
    <3>1. Sound(on_disconnect(shutdown_and_close_socket(x)), n, d, kept)
      BY <1>1, CloseSound, PlainSound
    <3> QED BY <2>2, <3>1, PlainSound DEF connect_cbk
  <2>3. CASE ~(err = "aborted" \/ x.sending_blocked_) /\ err # "error"
    <3> DEFINE f == [x EXCEPT !.connect_timer_ = FALSE]
    <3>1. f \in Endpoints /\ f.queue_ = x.queue_ /\ f.writes = x.writes /\ f.strand_ = x.strand_
      BY <1>1 DEF Sound, Endpoints
    <3>2. connect_cbk(x, err) = receive(on_connect(Resume(f)))
      BY <2>3 DEF connect_cbk
    <3> HIDE DEF f
    <3>3. Sound(on_connect(Resume(f)), n, d, kept)
      BY <1>1, <3>1, SoundWhenSame, ResumeSound, PlainSound
    <3> QED BY <3>2, <3>3, PlainSound
  <2> QED BY <2>1, <2>2, <2>3
<1>2. CASE e.connecting_timer_
  <2> DEFINE f == [e EXCEPT !.connecting_timer_ = FALSE]
  <2>1. f \in Endpoints /\ f.queue_ = e.queue_ /\ f.writes = e.writes /\ f.strand_ = e.strand_
    BY DEF Sound, Endpoints
  <2>2. cancel_and_connect_cbk(e, err) = connect_cbk(f, err)
    BY <1>2 DEF cancel_and_connect_cbk
  <2> HIDE DEF f
  <2> QED BY <1>1, <2>1, <2>2, SoundWhenSame
<1>3. CASE ~e.connecting_timer_
  BY <1>1, <1>3 DEF cancel_and_connect_cbk
<1> QED BY <1>2, <1>3

\* Taking the front off the queue.
LEMMA PopSound ==
    ASSUME NEW n, NEW d, NEW kept, NEW e, Sound(e, n, d, kept), e.queue_ # <<>>,
           NEW f \in Endpoints, f.queue_ = Tail(e.queue_), f.writes = e.writes, f.strand_ = e.strand_
    PROVE  Sound(f, n, d, kept)
<1> DEFINE q == e.queue_
           t == Tail(e.queue_)
<1>1. /\ t \in Seq(1..n) /\ Len(q) \in Nat \ {0}
      /\ DOMAIN q = 1..Len(q) /\ DOMAIN t = 1..(Len(q) - 1)
      /\ \A i \in 1..(Len(q) - 1) : t[i] = q[i + 1]
  BY Tailed DEF Sound
<1>2. ASSUME kept PROVE Ordered(e.writes, t, d)
  <2>1. Ordered(e.writes, q, d)
    BY <1>2 DEF Sound
  <2> HIDE DEF q, t
  <2>2. ASSUME NEW i \in DOMAIN t PROVE i \in Nat /\ i + 1 \in DOMAIN q /\ t[i] = q[i + 1]
    BY <1>1
  <2>3. \A i, j \in DOMAIN t : i < j => t[i] < t[j]
    BY <2>1, <2>2 DEF Ordered
  <2> QED BY <2>1, <2>2, <2>3 DEF Ordered
<1> QED BY <1>1, <1>2 DEF Sound

\* A write that completed: its message leaves the queue and the next one is written.
LEMMA SentOkSound ==
    ASSUME NEW n, NEW d, NEW kept, NEW e, Sound(e, n, d, kept)
    PROVE  Sound(SentOk(e), n, d, kept)
<1>1. CASE e.queue_ = <<>>
  BY <1>1 DEF SentOk
<1>2. CASE e.queue_ # <<>>
  <2> DEFINE rest == Tail(e.queue_)
             f == [e EXCEPT !.queue_ = rest, !.is_sending_ = FALSE]
             g == [e EXCEPT !.queue_ = rest]
  <2>1. e \in Endpoints /\ rest \in Seq(1..MaxMessages) /\ rest \in Seq(1..n)
    BY <1>2, Tailed DEF Sound, Endpoints
  <2> HIDE DEF rest
  <2>2. f \in Endpoints /\ f.queue_ = rest /\ f.writes = e.writes /\ f.strand_ = e.strand_
    BY <2>1 DEF Endpoints
  <2>3. g \in Endpoints /\ g.queue_ = rest /\ g.writes = e.writes /\ g.strand_ = e.strand_
    BY <2>1 DEF Endpoints
  <2>4. SentOk(e) = IF rest = <<>> THEN f ELSE send_queued(g, Head(rest))
    BY <1>2 DEF SentOk, rest
  <2> HIDE DEF f, g
  <2>5. Sound(f, n, d, kept) /\ Sound(g, n, d, kept)
    BY <1>2, <2>2, <2>3, PopSound DEF rest
  <2>6. rest # <<>> => Head(rest) \in 1..n
    BY <2>1, Tailed
  <2> QED BY <2>3, <2>4, <2>5, <2>6, SendQueuedSound
<1> QED BY <1>1, <1>2

\* The end of a write.
LEMMA SendCbkSound ==
    ASSUME NEW n, NEW d, NEW kept, NEW x, Sound(x, n, d, kept), NEW err \in Errors
    PROVE  Sound(send_cbk(x, err), n, d, kept)
<1> DEFINE e == CancelSentTimer(x)
           f == [e EXCEPT !.is_sending_ = FALSE]
<1>1. Sound(e, n, d, kept)
  BY PlainSound
<1>2. send_cbk(x, err) =
        CASE err = "ok" -> SentOk(e)
          [] err = "aborted" -> shutdown_and_close_socket(f)
          [] err = "error" /\ e.state_ = "CONNECTING" -> f
          [] err = "error" /\ e.state_ # "CONNECTING" ->
                restart(on_disconnect(shutdown_and_close_socket(f)), TRUE, FALSE)
  BY DEF send_cbk
<1> HIDE DEF e
<1>3. f \in Endpoints /\ f.queue_ = e.queue_ /\ f.writes = e.writes /\ f.strand_ = e.strand_
  BY <1>1 DEF Sound, Endpoints
<1> HIDE DEF f
<1>4. Sound(f, n, d, kept)
  BY <1>1, <1>3, SoundWhenSame
<1>5. CASE err = "ok"
  <2>1. send_cbk(x, err) = SentOk(e)
    BY <1>2, <1>5
  <2> QED BY <1>1, <2>1, SentOkSound
<1>6. CASE err = "aborted"
  <2>1. send_cbk(x, err) = shutdown_and_close_socket(f)
    BY <1>2, <1>6
  <2> QED BY <1>4, <2>1, CloseSound
<1>7. CASE err = "error" /\ e.state_ = "CONNECTING"
  <2>1. send_cbk(x, err) = f
    BY <1>2, <1>7
  <2> QED BY <1>4, <2>1
<1>8. CASE err = "error" /\ e.state_ # "CONNECTING"
  <2>1. send_cbk(x, err) = restart(on_disconnect(shutdown_and_close_socket(f)), TRUE, FALSE)
    BY <1>2, <1>8
  <2>2. Sound(on_disconnect(shutdown_and_close_socket(f)), n, d, kept)
    BY <1>4, CloseSound, PlainSound
  <2> QED BY <2>1, <2>2, RestartSound
<1> QED BY <1>5, <1>6, <1>7, <1>8 DEF Errors

\* Waiting for the write in progress, or restarting.
LEMMA WaitUntilSentSound ==
    ASSUME NEW n, NEW d, NEW kept, NEW e, Sound(e, n, d, kept),
           NEW timeout \in BOOLEAN, NEW onStrand \in BOOLEAN
    PROVE  Sound(wait_until_sent(e, timeout, onStrand), n, d, kept)
<1>1. CASE e.is_sending_ /\ ~timeout
  <2> DEFINE c == CancelSentTimer(e)
             f == [c EXCEPT !.sent_timer_ = TRUE]
  <2>1. Sound(c, n, d, kept)
    BY PlainSound
  <2>2. wait_until_sent(e, timeout, onStrand) = f
    BY <1>1 DEF wait_until_sent
  <2> HIDE DEF c
  <2>3. f \in Endpoints /\ f.queue_ = c.queue_ /\ f.writes = c.writes /\ f.strand_ = c.strand_
    BY <2>1 DEF Sound, Endpoints
  <2> HIDE DEF f
  <2> QED BY <2>1, <2>2, <2>3, SoundWhenSame
<1>2. CASE ~(e.is_sending_ /\ ~timeout) /\ onStrand
  BY <1>2, PlainSound, RestartSound DEF wait_until_sent
<1>3. CASE ~(e.is_sending_ /\ ~timeout) /\ ~onStrand
  <2>1. [op |-> "restart", force |-> TRUE] \in Handlers /\ Known([op |-> "restart", force |-> TRUE], n)
    BY DEF Handlers, Known
  <2> QED BY <1>3, <2>1, PlainSound, PostSound DEF wait_until_sent
<1> QED BY <1>1, <1>2, <1>3

\* The end of a read.
LEMMA ReceiveCbkSound ==
    ASSUME NEW n, NEW d, NEW kept, NEW e, Sound(e, n, d, kept), NEW err
    PROVE  Sound(receive_cbk(e, err), n, d, kept)
<1>1. CASE err = "ok"
  BY <1>1, PlainSound DEF receive_cbk
<1>2. CASE err # "ok" /\ err = "eof" /\ e.state_ = "CONNECTING"
  BY <1>2 DEF receive_cbk
<1>3. CASE err # "ok" /\ ~(err = "eof" /\ e.state_ = "CONNECTING")
  <2> DEFINE c == shutdown_and_close_socket(e)
             f == [c EXCEPT !.state_ = "CONNECTING"]
  <2>1. Sound(c, n, d, kept)
    BY CloseSound
  <2>2. receive_cbk(e, err) = wait_until_sent(f, FALSE, TRUE)
    BY <1>3 DEF receive_cbk
  <2> HIDE DEF c
  <2>3. f \in Endpoints /\ f.queue_ = c.queue_ /\ f.writes = c.writes /\ f.strand_ = c.strand_
    BY <2>1 DEF Sound, Endpoints
  <2> HIDE DEF f
  <2>4. Sound(f, n, d, kept)
    BY <2>1, <2>3, SoundWhenSame
  <2> QED BY <2>2, <2>4, WaitUntilSentSound
<1> QED BY <1>1, <1>2, <1>3

\* A completion is a handler that names no message.
LEMMA CompletionKnown ==
    ASSUME NEW n, NEW op \in {"connected", "sent"}, NEW ok \in BOOLEAN
    PROVE  Completion(op, ok) \in Handlers /\ Known(Completion(op, ok), n)
<1>1. /\ Completion(op, ok) \in [op : {"connected", "sent"}, err : Errors, stale : BOOLEAN]
      /\ Completion(op, ok).op # "send_queued"
  BY DEF Completion, Errors
<1> QED BY <1>1 DEF Handlers, Known

\* Starting a connection attempt.
LEMMA ConnectSound ==
    ASSUME NEW n, NEW d, NEW kept, NEW e, Sound(e, n, d, kept), NEW bound \in BOOLEAN
    PROVE  Sound(connect(e, bound), n, d, kept)
<1> DEFINE c == [e EXCEPT !.connecting_timer_ = TRUE, !.open = TRUE]
           b == [c EXCEPT !.connecting_timer_ = FALSE]
           r == [c EXCEPT !.state_ = "CONNECTING", !.aborted_restart_count_ = 0]
           g == [r EXCEPT !.link = "connecting"]
           Same(f) == f \in Endpoints /\ f.queue_ = e.queue_ /\ f.writes = e.writes /\ f.strand_ = e.strand_
<1>1. e \in Endpoints /\ 0 \in 0..tcp_restart_aborts_max_
  BY EndpointAssumption DEF Sound
<1>2. Same(c)
  BY <1>1 DEF Endpoints
<1>3. connect(e, bound) =
        IF ~bound THEN Post(b, [op |-> "connect_cbk", err |-> "error"])
        ELSE IF r.link = "none" THEN g ELSE Post(r, Completion("connected", r.link = "up"))
  BY DEF connect
<1> HIDE DEF c
<1>4. Same(b)
  BY <1>2 DEF Endpoints
<1>5. Same(r)
  BY <1>1, <1>2 DEF Endpoints
<1> HIDE DEF b, r
<1>6. Same(g)
  BY <1>5 DEF Endpoints
<1> HIDE DEF g
<1>7. Sound(b, n, d, kept) /\ Sound(r, n, d, kept) /\ Sound(g, n, d, kept)
  BY <1>4, <1>5, <1>6, SoundWhenSame
<1>8. CASE ~bound
  <2>1. [op |-> "connect_cbk", err |-> "error"] \in Handlers /\ Known([op |-> "connect_cbk", err |-> "error"], n)
    BY DEF Handlers, Known
  <2> QED BY <1>3, <1>7, <1>8, <2>1, PostSound
<1>9. CASE bound
  <2> DEFINE h == Completion("connected", r.link = "up")
  <2>1. h \in Handlers /\ Known(h, n)
    <3>1. (r.link = "up") \in BOOLEAN
      OBVIOUS
    <3> QED BY <3>1, CompletionKnown
  <2> HIDE DEF h
  <2>2. Sound(Post(r, h), n, d, kept)
    BY <1>7, <2>1, PostSound
  <2> QED BY <1>3, <1>7, <1>9, <2>2 DEF h
<1> QED BY <1>8, <1>9

\* A message that is accepted becomes the last of the queue.
LEMMA QueueTrainSound ==
    ASSUME NEW n, NEW d, NEW kept, NEW e, Sound(e, n, d, kept), n < MaxMessages
    PROVE  Sound(queue_train(e, n + 1), n + 1, d, kept)
<1> DEFINE q == [e EXCEPT !.queue_ = Append(@, n + 1)]
           f == [q EXCEPT !.is_sending_ = TRUE]
           h == [op |-> "send_queued", entry |-> Head(q.queue_)]
<1>1. /\ e \in Endpoints /\ n \in Nat /\ n + 1 \in 1..MaxMessages /\ d \in 0..n
      /\ e.queue_ \in Seq(1..n) /\ e.writes \in Seq(1..n) /\ e.queue_ \in Seq(1..MaxMessages)
      /\ \A i \in DOMAIN e.strand_ : Known(e.strand_[i], n)
  BY EndpointAssumption DEF Sound, Endpoints
<1>2. 1..n \subseteq 1..(n + 1) /\ n + 1 \in 1..(n + 1)
  BY <1>1
<1>3. e.queue_ \in Seq(1..(n + 1)) /\ e.writes \in Seq(1..(n + 1))
  BY <1>1, <1>2
<1>4. /\ Append(e.queue_, n + 1) \in Seq(1..(n + 1)) /\ Append(e.queue_, n + 1) \in Seq(1..MaxMessages)
      /\ Append(e.queue_, n + 1) # <<>>
  <2>1. Append(e.queue_, n + 1) \in Seq(1..(n + 1)) /\ Append(e.queue_, n + 1) \in Seq(1..MaxMessages)
    BY <1>1, <1>2, <1>3, Appended
  <2>2. ASSUME NEW S, NEW u \in Seq(S), NEW x \in S PROVE Append(u, x) # <<>>
    BY Appended
  <2>3. Append(e.queue_, n + 1) # <<>>
    BY <1>2, <1>3, <2>2, Zenon
  <2> QED BY <2>1, <2>3
<1>5. q \in Endpoints /\ q.queue_ = Append(e.queue_, n + 1) /\ q.writes = e.writes /\ q.strand_ = e.strand_
  BY <1>1, <1>4 DEF Endpoints
<1>6. queue_train(e, n + 1) = IF q.is_sending_ THEN q ELSE Post(f, h)
  BY DEF queue_train
<1>7. ASSUME kept PROVE Ordered(e.writes, Append(e.queue_, n + 1), d)
  <2>1. Ordered(e.writes, e.queue_, d)
    BY <1>7 DEF Sound
  <2>2. /\ DOMAIN Append(e.queue_, n + 1) = 1..(Len(e.queue_) + 1) /\ DOMAIN e.queue_ = 1..Len(e.queue_)
        /\ Len(e.queue_) \in Nat /\ Append(e.queue_, n + 1)[Len(e.queue_) + 1] = n + 1
        /\ \A i \in 1..Len(e.queue_) : Append(e.queue_, n + 1)[i] = e.queue_[i]
    BY <1>2, <1>3, Appended
  <2>3. /\ \A i \in DOMAIN e.queue_ : e.queue_[i] \in 1..n
        /\ \A i \in DOMAIN e.writes : e.writes[i] \in 1..n
    BY <1>1, Elements
  <2> DEFINE a == Append(e.queue_, n + 1)
             k == Len(e.queue_) + 1
  <2>4. ASSUME NEW j \in DOMAIN a
        PROVE  \/ j \in DOMAIN e.queue_ /\ j < k /\ a[j] = e.queue_[j]
               \/ j = k /\ a[j] = n + 1
    BY <2>2
  <2> HIDE DEF a, k
  <2>5. \A i, j \in DOMAIN a : i < j => a[i] < a[j]
    <3> SUFFICES ASSUME NEW i \in DOMAIN a, NEW j \in DOMAIN a, i < j PROVE a[i] < a[j]
      OBVIOUS
    <3>1. i \in DOMAIN e.queue_ /\ a[i] = e.queue_[i]
      BY <2>2, <2>4 DEF k
    <3>2. CASE j = k
      <4>1. e.queue_[i] \in 1..n
        BY <2>3, <3>1
      <4>2. a[j] = n + 1
        BY <2>2, <2>4, <3>2 DEF k
      <4> QED BY <1>1, <3>1, <4>1, <4>2
    <3>3. CASE j # k
      BY <2>1, <2>4, <3>1, <3>3 DEF Ordered
    <3> QED BY <3>2, <3>3
  <2>6. \A i \in DOMAIN e.writes, j \in DOMAIN a : e.writes[i] <= a[j]
    <3> SUFFICES ASSUME NEW i \in DOMAIN e.writes, NEW j \in DOMAIN a PROVE e.writes[i] <= a[j]
      OBVIOUS
    <3>1. e.writes[i] \in Nat /\ e.writes[i] <= n
      <4>1. e.writes[i] \in 1..n
        BY <2>3
      <4> QED BY <1>1, <4>1
    <3>2. CASE j \in DOMAIN e.queue_ /\ a[j] = e.queue_[j]
      BY <2>1, <3>2 DEF Ordered
    <3>3. CASE a[j] = n + 1
      BY <1>1, <3>1, <3>3
    <3> QED BY <2>4, <3>2, <3>3
  <2>7. \A j \in DOMAIN a : d <= a[j]
    BY <1>1, <2>1, <2>4 DEF Ordered
  <2> QED BY <2>1, <2>5, <2>6, <2>7 DEF a, Ordered
<1>8. \A i \in DOMAIN e.strand_ : Known(e.strand_[i], n + 1)
  BY <1>1, <1>2 DEF Known
<1> HIDE DEF q
<1>9. Sound(q, n + 1, d, kept)
  <2>1. n + 1 \in 0..MaxMessages /\ d \in 0..(n + 1)
    BY <1>1
  <2> QED BY <1>3, <1>4, <1>5, <1>7, <1>8, <2>1 DEF Sound
<1>10. Sound(f, n + 1, d, kept)
  <2>1. f \in Endpoints /\ f.queue_ = q.queue_ /\ f.writes = q.writes /\ f.strand_ = q.strand_
    BY <1>5 DEF Endpoints
  <2> HIDE DEF f
  <2> QED BY <1>9, <2>1, SoundWhenSame
<1>11. h \in Handlers /\ Known(h, n + 1)
  <2>1. Head(q.queue_) \in 1..(n + 1) /\ Head(q.queue_) \in 1..MaxMessages
    BY <1>4, <1>5, Tailed
  <2> QED BY <2>1 DEF Handlers, Known
<1> HIDE DEF f, h
<1> QED BY <1>6, <1>9, <1>10, <1>11, PostSound

\* stop() drops the queue and posts the close.
LEMMA StopSound ==
    ASSUME NEW n, NEW d, NEW kept, NEW e, Sound(e, n, d, kept)
    PROVE  Sound(stop(e), n, d, kept)
<1> DEFINE f == [e EXCEPT !.sending_blocked_ = TRUE, !.queue_ = <<>>, !.connect_timer_ = FALSE]
<1>1. f \in Endpoints /\ f.queue_ = <<>> /\ f.writes = e.writes /\ f.strand_ = e.strand_
  <2>1. <<>> \in Seq(1..MaxMessages)
    BY EndpointAssumption
  <2> QED BY <2>1 DEF Sound, Endpoints
<1>2. stop(e) = Post(f, [op |-> "close"])
  BY DEF stop
<1> HIDE DEF f
<1>3. Sound(f, n, d, kept)
  <2>1. \A i \in DOMAIN f.strand_ : Known(f.strand_[i], n)
    BY <1>1 DEF Sound
  <2> QED BY <1>1, <2>1, SoundWhenCleared
<1>4. [op |-> "close"] \in Handlers /\ Known([op |-> "close"], n)
  BY DEF Handlers, Known
<1> QED BY <1>2, <1>3, <1>4, PostSound

\* The first write outstanding reaches the peer, or fails.
LEMMA WriteSound ==
    ASSUME NEW n, NEW d, NEW kept, NEW e, Sound(e, n, d, kept), e.writes # <<>>,
           NEW f \in Endpoints, f.queue_ = e.queue_, f.writes = Tail(e.writes), f.strand_ = e.strand_
    PROVE  /\ Sound(f, n, d, kept) /\ Sound(f, n, Head(e.writes), kept)
           /\ Head(e.writes) \in 1..n /\ (kept => d <= Head(e.writes))
<1> DEFINE w == e.writes
           t == Tail(e.writes)
           m == Head(e.writes)
<1>1. /\ t \in Seq(1..n) /\ m \in 1..n /\ m = w[1] /\ Len(w) \in Nat \ {0}
      /\ DOMAIN w = 1..Len(w) /\ DOMAIN t = 1..(Len(w) - 1)
      /\ \A i \in 1..(Len(w) - 1) : t[i] = w[i + 1]
  BY Tailed DEF Sound
<1>2. n \in Nat /\ m \in 0..n
  BY <1>1, EndpointAssumption DEF Sound
<1>3. ASSUME kept PROVE Ordered(t, e.queue_, d) /\ Ordered(t, e.queue_, m) /\ d <= m
  <2>1. Ordered(w, e.queue_, d)
    BY <1>3 DEF Sound
  <2> HIDE DEF w, t, m
  <2>2. 1 \in DOMAIN w /\ d <= m /\ \A j \in DOMAIN e.queue_ : m <= e.queue_[j]
    <3>1. 1 \in DOMAIN w /\ m = w[1]
      BY <1>1
    <3>2. d <= w[1] /\ \A j \in DOMAIN e.queue_ : w[1] <= e.queue_[j]
      BY <2>1, <3>1 DEF Ordered
    <3> QED BY <3>1, <3>2
  <2>3. ASSUME NEW i \in DOMAIN t PROVE i \in Nat /\ i + 1 \in DOMAIN w /\ 1 < i + 1 /\ t[i] = w[i + 1]
    BY <1>1
  <2>4. \A i \in DOMAIN t : m <= t[i]
    BY <1>1, <2>1, <2>2, <2>3 DEF Ordered
  <2>5. \A i, j \in DOMAIN t : i < j => t[i] <= t[j]
    BY <2>1, <2>3 DEF Ordered
  <2> QED BY <2>1, <2>2, <2>3, <2>4, <2>5 DEF Ordered
<1> QED BY <1>1, <1>2, <1>3 DEF Sound

-----------------------------------------------------------------------------
(* The inductive invariant                                                 *)

IInv ==
    /\ Sound(ep, accepted, delivered, ~unaccounted)
    /\ faults \in 0..MaxFaults /\ restarts \in 0..MaxRestarts
    /\ overtaken \in BOOLEAN /\ unaccounted \in BOOLEAN

\* The endpoint a handler works on is sound, and so is the handler.
LEMMA RestSound ==
    ASSUME IInv, ep.strand_ # <<>>
    PROVE  /\ Sound(Rest, accepted, delivered, ~unaccounted)
           /\ Rest.queue_ = ep.queue_ /\ Rest.open = ep.open
           /\ Arg \in Handlers /\ Known(Arg, accepted)
<1> DEFINE s == ep.strand_
<1>1. ep \in Endpoints /\ s \in Seq(Handlers)
  BY DEF IInv, Sound, Endpoints
<1>2. /\ Tail(s) \in Seq(Handlers) /\ Head(s) \in Handlers /\ Head(s) = s[1]
      /\ Len(s) \in Nat \ {0} /\ DOMAIN s = 1..Len(s) /\ DOMAIN Tail(s) = 1..(Len(s) - 1)
      /\ \A i \in 1..(Len(s) - 1) : Tail(s)[i] = s[i + 1]
  BY <1>1, Tailed
<1>3. /\ Rest \in Endpoints /\ Rest.queue_ = ep.queue_ /\ Rest.writes = ep.writes
      /\ Rest.open = ep.open /\ Rest.strand_ = Tail(s)
  BY <1>1, <1>2 DEF Rest, Endpoints
<1>4. \A i \in DOMAIN s : Known(s[i], accepted)
  BY DEF IInv, Sound
<1> HIDE DEF s
<1>5. ASSUME NEW i \in DOMAIN Tail(s) PROVE Known(Tail(s)[i], accepted)
  <2>1. i + 1 \in DOMAIN s /\ Tail(s)[i] = s[i + 1]
    BY <1>2
  <2> QED BY <1>4, <2>1
<1>6. Known(Head(s), accepted)
  <2>1. 1 \in DOMAIN s
    BY <1>2
  <2> QED BY <1>2, <1>4, <2>1
<1>7. Sound(Rest, accepted, delivered, ~unaccounted)
  <2>1. Sound(ep, accepted, delivered, ~unaccounted)
    BY DEF IInv
  <2> QED BY <1>3, <1>5, <2>1, SoundWhenCleared
<1> QED BY <1>2, <1>3, <1>6, <1>7 DEF Arg, s

\* When the account is lost, nothing more is claimed.
LEMMA Weakened ==
    ASSUME NEW n, NEW d, NEW kept, NEW less, NEW e, Sound(e, n, d, kept), less => kept
    PROVE  Sound(e, n, d, less)
BY DEF Sound

\* A fault is counted up to its bound.
LEMMA FaultCounted ==
    ASSUME faults \in 0..MaxFaults, NEW b \in BOOLEAN, Fault(b)
    PROVE  faults' \in 0..MaxFaults
BY EndpointAssumption DEF Fault

\* Starting a connection attempt.
LEMMA RunConnectStep == ASSUME IInv, RunConnect PROVE IInv'
<1>1. PICK bound \in BOOLEAN : Fault(~bound) /\ ep' = connect(Rest, bound)
  BY DEF RunConnect
<1>2. faults' \in 0..MaxFaults
  BY <1>1, FaultCounted DEF IInv
<1>3. Sound(ep', accepted, delivered, ~unaccounted)
  BY <1>1, RestSound, ConnectSound DEF RunConnect, OnStrand
<1> QED BY <1>2, <1>3 DEF RunConnect, IInv

\* The end of a connection attempt.
LEMMA RunConnectedStep == ASSUME IInv, RunConnected PROVE IInv'
<1>1. Sound(ep', accepted, delivered, ~unaccounted)
  BY RestSound, ConnectCbkSound DEF RunConnected, OnStrand
<1>2. overtaken' \in BOOLEAN
  BY DEF RunConnected
<1> QED BY <1>1, <1>2 DEF RunConnected, IInv

\* The end of a write.
LEMMA RunSentStep == ASSUME IInv, RunSent PROVE IInv'
<1>1. Arg.err \in Errors
  <2>1. Arg \in Handlers /\ Arg.op = "sent"
    BY RestSound DEF RunSent, OnStrand, Arg
  <2> QED BY <2>1 DEF Handlers
<1>2. Sound(ep', accepted, delivered, ~unaccounted)
  BY <1>1, RestSound, SendCbkSound DEF RunSent, OnStrand
<1>3. overtaken' \in BOOLEAN
  BY DEF RunSent
<1> QED BY <1>2, <1>3 DEF RunSent, IInv

\* Starting the write queue_train asked for; the account is lost if the message is
\* not the front of the queue any more.
LEMMA RunSendQueuedStep == ASSUME IInv, RunSendQueued PROVE IInv'
<1>1. Sound(Rest, accepted, delivered, ~unaccounted) /\ Rest.queue_ = ep.queue_ /\ Rest.open = ep.open
  BY RestSound DEF RunSendQueued, OnStrand
<1>2. Arg.entry \in 1..accepted
  BY RestSound DEF RunSendQueued, OnStrand, Arg, Known
<1>3. unaccounted' \in BOOLEAN
  BY DEF RunSendQueued
<1>4. ~unaccounted' => ~unaccounted /\ (~ep.open \/ (ep.queue_ # <<>> /\ Arg.entry = Head(ep.queue_)))
  BY DEF RunSendQueued
<1>5. Sound(Rest, accepted, delivered, ~unaccounted')
  BY <1>1, <1>4, Weakened
<1>6. Sound(ep', accepted, delivered, ~unaccounted')
  BY <1>1, <1>2, <1>4, <1>5, SendQueuedSound DEF RunSendQueued
<1> QED BY <1>3, <1>6 DEF RunSendQueued, IInv

\* The other handlers on strand_.
LEMMA RunHandlerStep == ASSUME IInv, RunHandler PROVE IInv'
<1>0. ep.strand_ # <<>> /\ ep.open \in BOOLEAN
  BY DEF RunHandler, OnStrand, IInv, Sound, Endpoints
<1>1. Sound(Rest, accepted, delivered, ~unaccounted) /\ Arg \in Handlers
  BY <1>0, RestSound
<1>2. Sound(ep', accepted, delivered, ~unaccounted)
  <2>1. CASE OnStrand("connect_cbk") /\ ep' = connect_cbk(Rest, Arg.err)
    BY <1>1, <2>1, ConnectCbkSound
  <2>2. CASE OnStrand("received") /\ ep' = receive_cbk(Rest, Arg.err)
    BY <1>1, <2>2, ReceiveCbkSound
  <2>3. CASE OnStrand("restart") /\ \E late \in {FALSE, ~ep.open} : ep' = restart(Rest, Arg.force, late)
    <3>1. Arg.force \in BOOLEAN
      <4>1. Arg.op = "restart"
        BY <2>3 DEF OnStrand, Arg
      <4> QED BY <1>1, <4>1 DEF Handlers
    <3>2. PICK late \in {FALSE, ~ep.open} : ep' = restart(Rest, Arg.force, late)
      BY <2>3
    <3>3. late \in BOOLEAN
      OBVIOUS
    <3> QED BY <1>1, <3>1, <3>2, <3>3, RestartSound
  <2>4. CASE OnStrand("close") /\ ep' = shutdown_and_close_socket(Rest)
    BY <1>1, <2>4, CloseSound
  <2> QED BY <2>1, <2>2, <2>3, <2>4 DEF RunHandler
<1> QED BY <1>2 DEF RunHandler, IInv

\* Timers that expire only note it.
LEMMA TimerExpiresStep == ASSUME IInv, TimerExpires \/ ConnectingTimerExpires PROVE IInv'
<1>1. Sound(ep, accepted, delivered, ~unaccounted) /\ ep \in Endpoints
  BY DEF IInv, Sound
<1>2. ep' \in Endpoints /\ ep'.queue_ = ep.queue_ /\ ep'.writes = ep.writes /\ ep'.strand_ = ep.strand_
  <2>1. CASE TimerExpires
    <3>1. CASE ep' = [ep EXCEPT !.connect_timer_ = FALSE, !.due = {"wait_connect"}]
      BY <1>1, <3>1 DEF Endpoints, TimerHandlers
    <3>2. CASE ep' = [ep EXCEPT !.sent_timer_ = FALSE, !.due = {"sent_timeout"}]
      BY <1>1, <3>2 DEF Endpoints, TimerHandlers
    <3> QED BY <2>1, <3>1, <3>2 DEF TimerExpires
  <2>2. CASE ConnectingTimerExpires
    BY <1>1, <2>2 DEF ConnectingTimerExpires, Endpoints, TimerHandlers
  <2> QED BY <2>1, <2>2
<1>3. Sound(ep', accepted, delivered, ~unaccounted)
  BY <1>1, <1>2, SoundWhenSame
<1>4. faults' \in 0..MaxFaults
  BY FaultCounted DEF IInv, TimerExpires, ConnectingTimerExpires
<1> QED BY <1>3, <1>4 DEF TimerExpires, ConnectingTimerExpires, IInv

\* The handlers of the timers.
LEMMA RunTimerHandlerStep == ASSUME IInv, RunTimerHandler PROVE IInv'
<1>1. PICK t \in ep.due :
        LET e == [ep EXCEPT !.due = @ \ {t}]
        IN  \/ t = "wait_connect" /\ ep' = wait_connect_cbk(e)
            \/ t = "wait_connecting" /\ ep' = wait_connecting_cbk(e)
            \/ t \in {"sent_aborted", "sent_timeout"}
               /\ ep' = wait_until_sent(e, t = "sent_timeout", FALSE)
            \/ t = "established" /\ ep' = set_established(e)
  BY DEF RunTimerHandler
<1> DEFINE e == [ep EXCEPT !.due = @ \ {t}]
<1>2. Sound(ep, accepted, delivered, ~unaccounted) /\ ep \in Endpoints
  BY DEF IInv, Sound
<1>3. e \in Endpoints /\ e.queue_ = ep.queue_ /\ e.writes = ep.writes /\ e.strand_ = ep.strand_
  BY <1>2 DEF Endpoints
<1>4. \/ ep' = wait_connect_cbk(e) \/ ep' = wait_connecting_cbk(e)
      \/ ep' = wait_until_sent(e, t = "sent_timeout", FALSE) \/ ep' = set_established(e)
  BY <1>1
<1> HIDE DEF e
<1>5. Sound(e, accepted, delivered, ~unaccounted)
  BY <1>2, <1>3, SoundWhenSame
<1>6. Sound(ep', accepted, delivered, ~unaccounted)
  <2>1. CASE ep' = wait_connect_cbk(e)
    <3>1. [op |-> "connect"] \in Handlers /\ Known([op |-> "connect"], accepted)
      BY DEF Handlers, Known
    <3> QED BY <1>5, <2>1, <3>1, PostSound DEF wait_connect_cbk
  <2>2. CASE ep' = wait_connecting_cbk(e)
    BY <1>5, <2>2, ConnectCbkSound DEF wait_connecting_cbk
  <2>3. CASE ep' = wait_until_sent(e, t = "sent_timeout", FALSE)
    <3>1. PICK b \in BOOLEAN : ep' = wait_until_sent(e, b, FALSE)
      BY <2>3
    <3> QED BY <1>5, <3>1, WaitUntilSentSound
  <2>4. CASE ep' = set_established(e)
    BY <1>5, <2>4, PlainSound
  <2> QED BY <1>4, <2>1, <2>2, <2>3, <2>4
<1> QED BY <1>6 DEF RunTimerHandler, IInv

\* Connections that come and go, and reads.
LEMMA NetworkStep == ASSUME IInv, Connects \/ ConnectionLost \/ ReadEnds \/ Reads PROVE IInv'
<1>1. Sound(ep, accepted, delivered, ~unaccounted) /\ ep \in Endpoints
  BY DEF IInv, Sound
<1> DEFINE Same(f) == f \in Endpoints /\ f.queue_ = ep.queue_ /\ f.writes = ep.writes /\ f.strand_ = ep.strand_
<1>2. ASSUME NEW f, Same(f) PROVE Sound(f, accepted, delivered, ~unaccounted)
  BY <1>1, <1>2, SoundWhenSame
<1>3. CASE Connects
  <2>1. PICK ok \in BOOLEAN : /\ Fault(~ok)
                              /\ ep' = Post([ep EXCEPT !.link = IF ok THEN "up" ELSE "dead"],
                                            Completion("connected", ok))
    BY <1>3 DEF Connects
  <2> DEFINE f == [ep EXCEPT !.link = IF ok THEN "up" ELSE "dead"]
  <2>2. Same(f)
    BY <1>1 DEF Endpoints
  <2>3. ep' = Post(f, Completion("connected", ok))
    BY <2>1
  <2> HIDE DEF f
  <2>4. Sound(ep', accepted, delivered, ~unaccounted)
    BY <1>2, <2>2, <2>3, CompletionKnown, PostSound
  <2>5. faults' \in 0..MaxFaults
    BY <2>1, FaultCounted DEF IInv
  <2> QED BY <1>3, <2>4, <2>5 DEF Connects, IInv
<1>4. CASE ConnectionLost
  <2>1. Same(ep')
    BY <1>1, <1>4 DEF ConnectionLost, Endpoints
  <2>2. Sound(ep', accepted, delivered, ~unaccounted)
    BY <1>2, <2>1
  <2>3. faults' \in 0..MaxFaults
    BY <1>4, FaultCounted DEF ConnectionLost, IInv
  <2> QED BY <1>4, <2>2, <2>3 DEF ConnectionLost, IInv
<1>5. ASSUME NEW err \in {"ok", "eof", "broken"}, ep.reads > 0,
             ep' = Post([ep EXCEPT !.reads = @ - 1], [op |-> "received", err |-> err])
      PROVE  Sound(ep', accepted, delivered, ~unaccounted)
  <2> DEFINE f == [ep EXCEPT !.reads = @ - 1]
             h == [op |-> "received", err |-> err]
  <2>1. Same(f)
    <3>1. ep.reads \in Nat /\ ep.reads - 1 \in Nat
      BY <1>1, <1>5 DEF Endpoints
    <3> QED BY <1>1, <3>1 DEF Endpoints
  <2>2. h \in Handlers /\ Known(h, accepted)
    BY DEF Handlers, Known
  <2>3. ep' = Post(f, h)
    BY <1>5
  <2> HIDE DEF f, h
  <2> QED BY <1>2, <2>1, <2>2, <2>3, PostSound
<1>6. CASE ReadEnds
  BY <1>5, <1>6 DEF ReadEnds, IInv
<1>7. CASE Reads
  <2>1. PICK err \in {"ok", "broken"} :
          Fault(err = "broken") /\ ep' = Post([ep EXCEPT !.reads = @ - 1], [op |-> "received", err |-> err])
    BY <1>7 DEF Reads
  <2>2. Sound(ep', accepted, delivered, ~unaccounted)
    BY <1>5, <1>7, <2>1 DEF Reads
  <2>3. faults' \in 0..MaxFaults
    BY <2>1, EndpointAssumption DEF IInv, Fault
  <2> QED BY <1>7, <2>2, <2>3 DEF Reads, IInv
<1> QED BY <1>3, <1>4, <1>6, <1>7

\* A write that ends: what it delivers was accepted, and is not behind what was
\* delivered before.
LEMMA WritesStep ==
    ASSUME IInv, Writes
    PROVE  IInv' /\ (delivered' = delivered \/ InOrder!Deliver)
<1> DEFINE f == [ep EXCEPT !.writes = Tail(@)]
           m == Head(ep.writes)
           h == Completion("sent", ep.link = "up")
<1>1. /\ Sound(ep, accepted, delivered, ~unaccounted) /\ ep \in Endpoints /\ ep.writes # <<>>
      /\ ep.writes \in Seq(1..MaxMessages)
  BY DEF IInv, Sound, Endpoints, Writes
<1>2. f \in Endpoints /\ f.queue_ = ep.queue_ /\ f.writes = Tail(ep.writes) /\ f.strand_ = ep.strand_
  BY <1>1, Tailed DEF Endpoints
<1>3. ep' = Post(f, h) /\ delivered' \in {delivered, m}
  BY DEF Writes
<1>4. h \in Handlers /\ Known(h, accepted)
  <2>1. PICK b \in BOOLEAN : h = Completion("sent", b)
    OBVIOUS
  <2> QED BY <2>1, CompletionKnown
<1> HIDE DEF f, h, m
<1>5. /\ Sound(f, accepted, delivered, ~unaccounted) /\ Sound(f, accepted, m, ~unaccounted)
      /\ m \in 1..accepted /\ (~unaccounted => delivered <= m)
  BY <1>1, <1>2, WriteSound DEF m
<1>6. Sound(ep', accepted, delivered', ~unaccounted)
  BY <1>3, <1>4, <1>5, PostSound
<1>7. IInv'
  BY <1>6 DEF Writes, IInv
<1>8. delivered' = m => InOrder!Deliver
  <2>1. accepted \in Nat /\ delivered \in Nat
    BY <1>1, EndpointAssumption DEF Sound
  <2> QED BY <1>5, <2>1 DEF InOrder!Deliver, Writes
<1> QED BY <1>3, <1>7, <1>8

\* A message is accepted.
LEMMA QueueTrainStep ==
    ASSUME IInv, QueueTrain
    PROVE  IInv' /\ InOrder!Accept
<1>1. Sound(ep', accepted', delivered, ~unaccounted)
  BY QueueTrainSound DEF QueueTrain, IInv
<1>2. IInv'
  BY <1>1 DEF QueueTrain, IInv
<1> QED BY <1>2 DEF QueueTrain, InOrder!Accept

\* Restarts from outside, and the stop.
LEMMA UserStep == ASSUME IInv, Restart \/ Stop PROVE IInv'
<1>1. Sound(ep, accepted, delivered, ~unaccounted)
  BY DEF IInv
<1>2. CASE Restart
  <2> DEFINE h == [op |-> "restart", force |-> FALSE]
  <2>1. h \in Handlers /\ Known(h, accepted)
    BY DEF Handlers, Known
  <2>2. Sound(ep', accepted, delivered, ~unaccounted)
    BY <1>1, <1>2, <2>1, PostSound DEF Restart
  <2>3. restarts' \in 0..MaxRestarts
    BY <1>2, EndpointAssumption DEF IInv, Restart
  <2> QED BY <1>2, <2>2, <2>3 DEF Restart, IInv
<1>3. CASE Stop
  <2>1. Sound(ep', accepted, delivered, ~unaccounted)
    BY <1>1, <1>3, StopSound DEF Stop
  <2> QED BY <1>3, <2>1 DEF Stop, IInv
<1> QED BY <1>2, <1>3

\* The invariant holds at first.
LEMMA InitSound == EndpointInit => IInv
<1> SUFFICES ASSUME EndpointInit PROVE IInv
  OBVIOUS
<1>1. <<>> \in Seq(1..MaxMessages) /\ <<>> \in Seq(1..0) /\ 0 \in 0..tcp_restart_aborts_max_
  BY EndpointAssumption
<1>2. [op |-> "connect"] \in Handlers /\ Known([op |-> "connect"], 0)
  BY DEF Handlers, Known
<1>3. ep.strand_ \in Seq(Handlers) /\ \A i \in DOMAIN ep.strand_ : Known(ep.strand_[i], 0)
  BY <1>2 DEF EndpointInit
<1>4. ep \in Endpoints
  BY <1>1, <1>3 DEF EndpointInit, Endpoints
<1>5. ep.queue_ = <<>> /\ ep.writes = <<>>
  BY DEF EndpointInit
<1>6. Ordered(<<>>, <<>>, 0)
  BY DEF Ordered
<1>7. Sound(ep, 0, 0, ~unaccounted)
  BY <1>1, <1>3, <1>4, <1>5, <1>6, EndpointAssumption DEF Sound
<1>8. accepted = 0 /\ delivered = 0 /\ faults = 0 /\ restarts = 0 /\ overtaken = FALSE /\ unaccounted = FALSE
  BY Zenon DEF EndpointInit
<1>9. faults \in 0..MaxFaults /\ restarts \in 0..MaxRestarts
  BY <1>8, EndpointAssumption
<1> QED BY <1>7, <1>8, <1>9 DEF IInv

\* Every step keeps the invariant, and is a step of the channel or none.
LEMMA StepSound ==
    ASSUME IInv, [EndpointNext]_endpointVars
    PROVE  IInv' /\ [InOrder!ChannelNext]_(InOrder!channelVars)
<1> DEFINE quiet == UNCHANGED <<accepted, delivered, unaccounted>>
<1>1. quiet => [InOrder!ChannelNext]_(InOrder!channelVars)
  BY DEF InOrder!channelVars
<1>2. CASE RunConnect
  BY <1>1, <1>2, RunConnectStep DEF RunConnect
<1>3. CASE RunConnected
  BY <1>1, <1>3, RunConnectedStep DEF RunConnected
<1>4. CASE RunSent
  BY <1>1, <1>4, RunSentStep DEF RunSent
<1>5. CASE RunSendQueued
  <2>1. IInv' /\ UNCHANGED <<accepted, delivered>> /\ unaccounted' \in BOOLEAN /\ (unaccounted => unaccounted')
    BY <1>5, RunSendQueuedStep DEF RunSendQueued
  <2>2. CASE unaccounted' = unaccounted
    BY <1>1, <2>1, <2>2
  <2>3. CASE unaccounted' # unaccounted
    <3>1. unaccounted'
      BY <2>1, <2>3 DEF IInv
    <3> QED BY <2>1, <3>1 DEF InOrder!ChannelNext, InOrder!Break
  <2> QED BY <2>2, <2>3
<1>6. CASE RunHandler
  BY <1>1, <1>6, RunHandlerStep DEF RunHandler
<1>7. CASE RunTimerHandler
  BY <1>1, <1>7, RunTimerHandlerStep DEF RunTimerHandler
<1>8. CASE TimerExpires \/ ConnectingTimerExpires
  BY <1>1, <1>8, TimerExpiresStep DEF TimerExpires, ConnectingTimerExpires
<1>9. CASE Connects \/ ConnectionLost \/ ReadEnds \/ Reads
  BY <1>1, <1>9, NetworkStep DEF Connects, ConnectionLost, ReadEnds, Reads
<1>10. CASE Writes
  <2>1. IInv' /\ (delivered' = delivered \/ InOrder!Deliver)
    BY <1>10, WritesStep
  <2>2. UNCHANGED <<accepted, unaccounted>>
    BY <1>10 DEF Writes
  <2> QED BY <1>1, <2>1, <2>2 DEF InOrder!ChannelNext
<1>11. CASE QueueTrain
  BY <1>11, QueueTrainStep DEF InOrder!ChannelNext
<1>12. CASE Restart \/ Stop
  BY <1>1, <1>12, UserStep DEF Restart, Stop
<1>13. CASE UNCHANGED endpointVars
  BY <1>1, <1>13 DEF endpointVars, IInv
<1> QED BY <1>2, <1>3, <1>4, <1>5, <1>6, <1>7, <1>8, <1>9, <1>10, <1>11, <1>12, <1>13
        DEF EndpointNext, Strand, Network

-----------------------------------------------------------------------------
(* is_sending_ stands for a write that is under way                         *)

\* A send_queued, a write or its completion is under way.
Working(e) ==
    e.writes # <<>> \/ \E i \in DOMAIN e.strand_ : e.strand_[i].op \in {"send_queued", "sent"}

\* SendingIsReal, and the queue still holds what is_sending_ is about: a completion
\* that found it empty would leave is_sending_ set.
Real(e) == e.is_sending_ /\ ~e.sending_blocked_ => e.queue_ # <<>> /\ Working(e)

\* f has the queue, the writes and the strand of e.
Frame(e, f) ==
    /\ f.queue_ = e.queue_ /\ f.writes = e.writes /\ f.strand_ = e.strand_
    /\ f.is_sending_ = e.is_sending_ /\ f.sending_blocked_ = e.sending_blocked_

\* Real depends on nothing else, and on nothing at all while nothing is sent.
LEMMA RealFramed ==
    ASSUME NEW e, NEW f
    PROVE  /\ Real(e) /\ Frame(e, f) => Real(f)
           /\ ~f.is_sending_ \/ f.sending_blocked_ => Real(f)
BY DEF Real, Frame, Working

\* Timers, notifications to the host and the state of the connection.
LEMMA PlainFrame ==
    ASSUME NEW e \in Endpoints
    PROVE  /\ Frame(e, receive(e)) /\ Frame(e, start_connect_timer(e)) /\ Frame(e, CancelSentTimer(e))
           /\ Frame(e, on_connect(e)) /\ Frame(e, on_disconnect(e)) /\ Frame(e, set_established(e))
<1>1. Frame(e, receive(e))
  BY DEF Frame, receive, Endpoints
<1>2. Frame(e, start_connect_timer(e))
  BY DEF Frame, start_connect_timer, Endpoints
<1>3. Frame(e, CancelSentTimer(e))
  BY DEF Frame, CancelSentTimer, Endpoints
<1>4. Frame(e, on_connect(e))
  BY DEF Frame, on_connect, Endpoints
<1>5. Frame(e, on_disconnect(e))
  BY DEF Frame, on_disconnect, Endpoints
<1>6. Frame(e, set_established(e))
  BY DEF Frame, set_established, Endpoints
<1> QED BY <1>1, <1>2, <1>3, <1>4, <1>5, <1>6

\* Posting a handler.
LEMMA PostReal ==
    ASSUME NEW e \in Endpoints, Real(e), NEW h \in Handlers
    PROVE  Real(Post(e, h))
<1> DEFINE f == Post(e, h)
<1>1. /\ f.queue_ = e.queue_ /\ f.writes = e.writes /\ f.strand_ = Append(e.strand_, h)
      /\ f.is_sending_ = e.is_sending_ /\ f.sending_blocked_ = e.sending_blocked_
  BY DEF Post, Endpoints
<1>2. e.strand_ \in Seq(Handlers)
  BY DEF Endpoints
<1> HIDE DEF f
<1>3. ASSUME NEW i \in DOMAIN e.strand_ PROVE i \in DOMAIN f.strand_ /\ f.strand_[i] = e.strand_[i]
  BY <1>1, <1>2, Appended
<1> QED BY <1>1, <1>3 DEF Real, Working, f

\* The elements of the first and of the second of two joined sequences.
LEMMA Kept ==
    ASSUME NEW S, NEW s \in Seq(S), NEW t \in Seq(S)
    PROVE  /\ \A i \in DOMAIN s : i \in DOMAIN (s \o t) /\ (s \o t)[i] = s[i]
           /\ \A i \in DOMAIN t : \E j \in DOMAIN (s \o t) : (s \o t)[j] = t[i]
<1>1. s \o t \in Seq(S) /\ Len(s \o t) = Len(s) + Len(t) /\ Len(s) \in Nat /\ Len(t) \in Nat
  OBVIOUS
<1>2. DOMAIN s = 1..Len(s) /\ DOMAIN t = 1..Len(t) /\ DOMAIN (s \o t) = 1..(Len(s) + Len(t))
  BY <1>1
<1>3. ASSUME NEW i \in DOMAIN s PROVE i \in DOMAIN (s \o t) /\ (s \o t)[i] = s[i]
  BY <1>1, <1>2
<1>4. ASSUME NEW i \in DOMAIN t PROVE \E j \in DOMAIN (s \o t) : (s \o t)[j] = t[i]
  <2>1. Len(s) + i \in 1..(Len(s) + Len(t)) /\ (s \o t)[Len(s) + i] = t[i]
    BY <1>1, <1>2
  <2> QED BY <1>2, <2>1
<1> QED BY <1>3, <1>4

\* Closing the socket turns the writes under way into completions, and keeps the
\* handlers that were posted.
LEMMA CloseReal ==
    ASSUME NEW e \in Endpoints, Real(e)
    PROVE  LET f == shutdown_and_close_socket(e)
           IN  Real(f) /\ f.is_sending_ = e.is_sending_ /\ f.sending_blocked_ = e.sending_blocked_
<1> DEFINE f == shutdown_and_close_socket(e)
           Age(h) == IF h.op \in {"connected", "sent"} THEN [h EXCEPT !.stale = TRUE] ELSE h
           aged == [i \in DOMAIN e.strand_ |-> Age(e.strand_[i])]
           ended(op, k) == [i \in 1..k |-> [op |-> op, err |-> "aborted", stale |-> TRUE]]
           connected == ended("connected", IF e.link = "connecting" THEN 1 ELSE 0)
           sent == ended("sent", Len(e.writes))
<1>1. e.strand_ \in Seq(Handlers) /\ e.writes \in Seq(1..MaxMessages)
  BY DEF Endpoints
<1>2. CASE ~e.open
  <2>1. Frame(e, f)
    BY <1>2 DEF Frame, shutdown_and_close_socket, Endpoints
  <2> QED BY <2>1, RealFramed DEF Frame
<1>3. CASE e.open
  <2>1. f = [e EXCEPT !.state_ = "CLOSED", !.open = FALSE, !.link = "none", !.writes = <<>>, !.reads = 0,
                      !.strand_ = (aged \o connected) \o sent]
    BY <1>3 DEF shutdown_and_close_socket
  <2>2. /\ f.queue_ = e.queue_ /\ f.strand_ = (aged \o connected) \o sent
        /\ f.is_sending_ = e.is_sending_ /\ f.sending_blocked_ = e.sending_blocked_
    <3> HIDE DEF aged, connected, sent, f
    <3> QED BY <2>1 DEF Endpoints
  <2>3. aged \in Seq(Handlers)
    <3>1. ASSUME NEW i \in DOMAIN e.strand_ PROVE Age(e.strand_[i]) \in Handlers
      <4>1. e.strand_[i] \in Handlers
        BY <1>1
      <4>2. CASE e.strand_[i].op \in {"connected", "sent"}
        <5>1. e.strand_[i] \in [op : {"connected", "sent"}, err : Errors, stale : BOOLEAN]
          BY <4>1, <4>2 DEF Handlers
        <5> QED BY <4>2, <5>1 DEF Handlers
      <4> QED BY <4>1, <4>2
    <3> HIDE DEF Age
    <3> QED BY <1>1, <3>1
  <2>4. connected \in Seq(Handlers) /\ sent \in Seq(Handlers)
    <3>1. Len(e.writes) \in Nat
      BY <1>1
    <3> QED BY <3>1, AbortedHandlers
  <2>5. aged \o connected \in Seq(Handlers)
    <3> HIDE DEF aged, connected
    <3> QED BY <2>3, <2>4
  <2>6. Working(e) => \E i \in DOMAIN f.strand_ : f.strand_[i].op \in {"send_queued", "sent"}
    <3>1. CASE e.writes # <<>>
      <4>1. 1 \in DOMAIN sent /\ sent[1].op = "sent"
        <5>1. Len(e.writes) \in Nat \ {0}
          BY <1>1, <3>1
        <5> QED BY <5>1
      <4> HIDE DEF aged, connected, sent, f
      <4>2. PICK j \in DOMAIN ((aged \o connected) \o sent) : ((aged \o connected) \o sent)[j] = sent[1]
        <5> DEFINE u == aged \o connected
        <5>1. u \in Seq(Handlers)
          BY <2>5
        <5> HIDE DEF u
        <5>2. \A i \in DOMAIN sent : \E j \in DOMAIN (u \o sent) : (u \o sent)[j] = sent[i]
          BY <2>4, <5>1, Kept
        <5> QED BY <4>1, <5>2 DEF u
      <4> QED BY <2>2, <4>1, <4>2
    <3>2. ASSUME NEW i \in DOMAIN e.strand_, e.strand_[i].op \in {"send_queued", "sent"}
          PROVE  i \in DOMAIN f.strand_ /\ f.strand_[i].op \in {"send_queued", "sent"}
      <4>1. i \in DOMAIN aged /\ aged[i].op = e.strand_[i].op
        <5>1. Age(e.strand_[i]).op = e.strand_[i].op
          OBVIOUS
        <5> HIDE DEF Age
        <5> QED BY <5>1
      <4> HIDE DEF aged, connected, sent, f
      <4>2. i \in DOMAIN (aged \o connected) /\ (aged \o connected)[i] = aged[i]
        BY <2>3, <2>4, <4>1, Kept
      <4>3. i \in DOMAIN f.strand_ /\ f.strand_[i] = aged[i]
        BY <2>2, <2>4, <2>5, <4>2, Kept
      <4> QED BY <3>2, <4>1, <4>3
    <3> HIDE DEF f
    <3> QED BY <3>1, <3>2 DEF Working
  <2> HIDE DEF f
  <2> QED BY <2>2, <2>6 DEF Real, Working, f
<1> QED BY <1>2, <1>3

\* A restart drops the queue, and is_sending_ with it, or only counts.
LEMMA RestartReal ==
    ASSUME NEW e \in Endpoints, Real(e), NEW force, NEW late
    PROVE  Real(restart(e, force, late))
<1>1. CASE RestartIsAborted(e, force, late)
  <2>1. restart(e, force, late) = [e EXCEPT !.aborted_restart_count_ = @ + 1]
    BY <1>1 DEF restart
  <2>2. Frame(e, restart(e, force, late))
    BY <2>1 DEF Frame, Endpoints
  <2> QED BY <2>2, RealFramed
<1>2. CASE ~RestartIsAborted(e, force, late)
  <2> DEFINE c == shutdown_and_close_socket(e)
             f == restart(e, force, late)
  <2>1. f = [[c EXCEPT !.state_ = "CONNECTING", !.was_not_connected_ = TRUE, !.queue_ = <<>>,
                       !.is_sending_ = FALSE] EXCEPT !.connect_timer_ = TRUE]
    BY <1>2 DEF restart, start_connect_timer
  <2>2. "is_sending_" \in DOMAIN c
    BY DEF shutdown_and_close_socket, Endpoints
  <2> HIDE DEF c
  <2>3. ~f.is_sending_
    BY <2>1, <2>2
  <2> HIDE DEF f
  <2> QED BY <2>3, RealFramed DEF f
<1> QED BY <1>1, <1>2

\* A write of a message of the queue is under way, or is_sending_ is reset.
LEMMA SendQueuedReal ==
    ASSUME NEW e \in Endpoints, e.queue_ # <<>> \/ ~e.is_sending_ \/ e.sending_blocked_,
           NEW m \in 1..MaxMessages
    PROVE  Real(send_queued(e, m))
<1> DEFINE f == send_queued(e, m)
<1>1. CASE ~e.open
  <2>1. ~f.is_sending_
    BY <1>1 DEF send_queued, Endpoints
  <2> HIDE DEF f
  <2> QED BY <2>1, RealFramed DEF f
<1>2. CASE e.open
  <2>1. /\ f.queue_ = e.queue_ /\ f.writes = Append(e.writes, m) /\ f.is_sending_ = e.is_sending_
        /\ f.sending_blocked_ = e.sending_blocked_
    BY <1>2 DEF send_queued, Endpoints
  <2>2. f.writes # <<>>
    <3>1. ASSUME NEW S, NEW u \in Seq(S), NEW x \in S PROVE Append(u, x) # <<>>
      BY Appended
    <3>2. e.writes \in Seq(1..MaxMessages)
      BY DEF Endpoints
    <3> QED BY <2>1, <3>1, <3>2
  <2> HIDE DEF f
  <2> QED BY <2>1, <2>2 DEF Real, Working, f
<1> QED BY <1>1, <1>2

\* The end of a connection attempt: what a closed socket held up is written.
LEMMA ConnectCbkReal ==
    ASSUME NEW n, NEW d, NEW kept, NEW x, Sound(x, n, d, kept), Real(x), NEW err
    PROVE  Real(connect_cbk(x, err)) /\ Real(cancel_and_connect_cbk(x, err))
<1>1. ASSUME NEW e, Sound(e, n, d, kept), Real(e) PROVE Real(Resume(e))
  <2>1. e \in Endpoints
    BY <1>1 DEF Sound
  <2>2. CASE ~e.was_not_connected_
    BY <1>1, <2>2 DEF Resume
  <2>3. CASE e.was_not_connected_ /\ e.queue_ = <<>>
    <3>1. Frame(e, Resume(e))
      BY <2>1, <2>3 DEF Resume, Frame, Endpoints
    <3> QED BY <1>1, <3>1, RealFramed
  <2>4. CASE e.was_not_connected_ /\ e.queue_ # <<>>
    <3> DEFINE f == [e EXCEPT !.was_not_connected_ = FALSE, !.is_sending_ = TRUE]
    <3>1. f \in Endpoints /\ f.queue_ = e.queue_
      BY <2>1 DEF Endpoints
    <3>2. Resume(e) = send_queued(f, Head(e.queue_))
      BY <2>4 DEF Resume
    <3>3. Head(e.queue_) \in 1..MaxMessages
      BY <2>1, <2>4, Tailed DEF Endpoints
    <3> HIDE DEF f
    <3> QED BY <2>4, <3>1, <3>2, <3>3, SendQueuedReal
  <2> QED BY <2>2, <2>3, <2>4
<1>2. ASSUME NEW e, Sound(e, n, d, kept), Real(e) PROVE Real(connect_cbk(e, err))
  <2>0. e \in Endpoints
    BY <1>2 DEF Sound
  <2> DEFINE c == shutdown_and_close_socket(e)
  <2>1. Real(c) /\ c \in Endpoints
    BY <1>2, <2>0, CloseReal, CloseSound DEF Sound
  <2> HIDE DEF c
  <2>2. CASE err = "aborted" \/ e.sending_blocked_
    BY <2>1, <2>2 DEF connect_cbk, c
  <2>3. CASE ~(err = "aborted" \/ e.sending_blocked_) /\ err = "error"
    <3>1. connect_cbk(e, err) = start_connect_timer(on_disconnect(c))
      BY <2>3 DEF connect_cbk, c
    <3>2. Real(on_disconnect(c)) /\ on_disconnect(c) \in Endpoints
      <4>1. Frame(c, on_disconnect(c))
        BY <2>1, PlainFrame
      <4>2. on_disconnect(c) \in Endpoints
        BY <2>1 DEF on_disconnect, Endpoints
      <4> QED BY <2>1, <4>1, <4>2, RealFramed
    <3> QED BY <3>1, <3>2, PlainFrame, RealFramed
  <2>4. CASE ~(err = "aborted" \/ e.sending_blocked_) /\ err # "error"
    <3> DEFINE f == [e EXCEPT !.connect_timer_ = FALSE]
               r == Resume(f)
               o == on_connect(r)
    <3>1. f \in Endpoints /\ Frame(e, f)
      BY <2>0 DEF Endpoints, Frame
    <3>2. connect_cbk(e, err) = receive(o)
      BY <2>4 DEF connect_cbk
    <3> HIDE DEF f
    <3>3. Sound(f, n, d, kept) /\ Real(f)
      BY <1>2, <3>1, RealFramed, SoundWhenSame DEF Frame
    <3>4. Sound(r, n, d, kept) /\ Real(r)
      BY <1>1, <3>3, ResumeSound
    <3> HIDE DEF r
    <3>5. Sound(o, n, d, kept) /\ Real(o)
      BY <3>4, PlainSound, PlainFrame, RealFramed DEF Sound
    <3> HIDE DEF o
    <3> QED BY <3>2, <3>5, PlainFrame, RealFramed DEF Sound
  <2> QED BY <2>2, <2>3, <2>4
<1>3. CASE x.connecting_timer_
  <2> DEFINE f == [x EXCEPT !.connecting_timer_ = FALSE]
  <2>1. f \in Endpoints /\ Frame(x, f)
    BY DEF Sound, Endpoints, Frame
  <2>2. cancel_and_connect_cbk(x, err) = connect_cbk(f, err)
    BY <1>3 DEF cancel_and_connect_cbk
  <2> HIDE DEF f
  <2>3. Sound(f, n, d, kept) /\ Real(f)
    BY <2>1, RealFramed, SoundWhenSame DEF Frame
  <2> QED BY <1>2, <2>2, <2>3
<1>4. CASE ~x.connecting_timer_
  BY <1>2, <1>4 DEF cancel_and_connect_cbk
<1> QED BY <1>2, <1>3, <1>4

\* The end of a write, whatever it ended with: the next one is started, or is_sending_
\* is reset.  The completion itself is off the strand.
LEMMA SendCbkReal ==
    ASSUME NEW n, NEW d, NEW kept, NEW x, Sound(x, n, d, kept), NEW err \in Errors,
           x.queue_ # <<>> \/ ~x.is_sending_ \/ x.sending_blocked_
    PROVE  Real(send_cbk(x, err))
<1> DEFINE e == CancelSentTimer(x)
           f == [e EXCEPT !.is_sending_ = FALSE]
<1>1. e \in Endpoints /\ Frame(x, e)
  BY PlainSound, PlainFrame DEF Sound
<1>2. send_cbk(x, err) =
        CASE err = "ok" -> SentOk(e)
          [] err = "aborted" -> shutdown_and_close_socket(f)
          [] err = "error" /\ e.state_ = "CONNECTING" -> f
          [] err = "error" /\ e.state_ # "CONNECTING" ->
                restart(on_disconnect(shutdown_and_close_socket(f)), TRUE, FALSE)
  BY DEF send_cbk
<1>3. e.queue_ # <<>> \/ ~e.is_sending_ \/ e.sending_blocked_
  BY <1>1 DEF Frame
<1> HIDE DEF e
<1>4. f \in Endpoints /\ ~f.is_sending_
  BY <1>1 DEF Endpoints
<1>5. Sound(f, n, d, kept)
  <2>1. Sound(e, n, d, kept)
    BY PlainSound DEF e
  <2>2. f.queue_ = e.queue_ /\ f.writes = e.writes /\ f.strand_ = e.strand_
    BY <1>1 DEF Endpoints
  <2> HIDE DEF f
  <2> QED BY <1>4, <2>1, <2>2, SoundWhenSame
<1> HIDE DEF f
<1>6. Real(f)
  BY <1>4, RealFramed
<1>7. CASE err = "ok"
  <2>1. send_cbk(x, err) = SentOk(e)
    BY <1>2, <1>7
  <2>2. CASE e.queue_ = <<>>
    BY <1>3, <2>1, <2>2 DEF SentOk, Real
  <2>3. CASE e.queue_ # <<>> /\ Tail(e.queue_) = <<>>
    <3>1. ~SentOk(e).is_sending_
      BY <1>1, <2>3 DEF SentOk, Endpoints
    <3> QED BY <2>1, <3>1, RealFramed
  <2>4. CASE e.queue_ # <<>> /\ Tail(e.queue_) # <<>>
    <3> DEFINE rest == Tail(e.queue_)
               g == [e EXCEPT !.queue_ = rest]
    <3>1. rest \in Seq(1..MaxMessages)
      BY <1>1, <2>4, Tailed DEF Endpoints
    <3>2. SentOk(e) = send_queued(g, Head(rest))
      BY <2>4 DEF SentOk
    <3>3. rest # <<>>
      BY <2>4
    <3> HIDE DEF rest
    <3>4. g \in Endpoints /\ g.queue_ = rest
      BY <1>1, <3>1 DEF Endpoints
    <3>5. Head(rest) \in 1..MaxMessages
      BY <3>1, <3>3, Tailed
    <3> HIDE DEF g
    <3> QED BY <2>1, <3>2, <3>3, <3>4, <3>5, SendQueuedReal
  <2> QED BY <2>2, <2>3, <2>4
<1>8. CASE err = "aborted"
  <2>1. send_cbk(x, err) = shutdown_and_close_socket(f)
    BY <1>2, <1>8
  <2> QED BY <1>4, <1>6, <2>1, CloseReal
<1>9. CASE err = "error" /\ e.state_ = "CONNECTING"
  <2>1. send_cbk(x, err) = f
    BY <1>2, <1>9
  <2> QED BY <1>6, <2>1
<1>10. CASE err = "error" /\ e.state_ # "CONNECTING"
  <2> DEFINE c == shutdown_and_close_socket(f)
  <2>1. send_cbk(x, err) = restart(on_disconnect(c), TRUE, FALSE)
    BY <1>2, <1>10
  <2>2. c \in Endpoints /\ Real(c)
    BY <1>4, <1>5, <1>6, CloseSound, CloseReal DEF Sound
  <2> HIDE DEF c
  <2>3. Frame(c, on_disconnect(c)) /\ on_disconnect(c) \in Endpoints
    BY <2>2, PlainFrame DEF on_disconnect, Endpoints
  <2> QED BY <2>1, <2>2, <2>3, RealFramed, RestartReal
<1> QED BY <1>7, <1>8, <1>9, <1>10 DEF Errors

\* Waiting for the write in progress, or restarting.
LEMMA WaitUntilSentReal ==
    ASSUME NEW e \in Endpoints, Real(e), NEW timeout, NEW onStrand
    PROVE  Real(wait_until_sent(e, timeout, onStrand))
<1> DEFINE o == on_disconnect(e)
<1>1. Frame(e, o) /\ o \in Endpoints
  BY PlainFrame DEF on_disconnect, Endpoints
<1>2. Real(o)
  BY <1>1, RealFramed
<1> HIDE DEF o
<1>3. CASE e.is_sending_ /\ ~timeout
  <2> DEFINE f == [CancelSentTimer(e) EXCEPT !.sent_timer_ = TRUE]
  <2>1. Frame(e, f)
    BY DEF CancelSentTimer, Frame, Endpoints
  <2>2. wait_until_sent(e, timeout, onStrand) = f
    BY <1>3 DEF wait_until_sent
  <2> HIDE DEF f
  <2> QED BY <2>1, <2>2, RealFramed
<1>4. CASE ~(e.is_sending_ /\ ~timeout) /\ onStrand
  BY <1>1, <1>2, <1>4, RestartReal DEF wait_until_sent, o
<1>5. CASE ~(e.is_sending_ /\ ~timeout) /\ ~onStrand
  <2>1. [op |-> "restart", force |-> TRUE] \in Handlers
    BY DEF Handlers
  <2> QED BY <1>1, <1>2, <1>5, <2>1, PostReal DEF wait_until_sent, o
<1> QED BY <1>3, <1>4, <1>5

\* The end of a read.
LEMMA ReceiveCbkReal ==
    ASSUME NEW n, NEW d, NEW kept, NEW e, Sound(e, n, d, kept), Real(e), NEW err
    PROVE  Real(receive_cbk(e, err))
<1>0. e \in Endpoints
  BY DEF Sound
<1>1. CASE err = "ok"
  BY <1>0, <1>1, PlainFrame, RealFramed DEF receive_cbk
<1>2. CASE err # "ok" /\ err = "eof" /\ e.state_ = "CONNECTING"
  BY <1>2 DEF receive_cbk
<1>3. CASE err # "ok" /\ ~(err = "eof" /\ e.state_ = "CONNECTING")
  <2> DEFINE c == shutdown_and_close_socket(e)
             f == [c EXCEPT !.state_ = "CONNECTING"]
  <2>1. c \in Endpoints /\ Real(c)
    BY <1>0, CloseSound, CloseReal DEF Sound
  <2>2. receive_cbk(e, err) = wait_until_sent(f, FALSE, TRUE)
    BY <1>3 DEF receive_cbk
  <2> HIDE DEF c
  <2>3. f \in Endpoints /\ Frame(c, f)
    BY <2>1 DEF Endpoints, Frame
  <2> HIDE DEF f
  <2> QED BY <2>1, <2>2, <2>3, RealFramed, WaitUntilSentReal
<1> QED BY <1>1, <1>2, <1>3

\* Starting a connection attempt posts at most its end.
LEMMA ConnectReal ==
    ASSUME NEW e \in Endpoints, Real(e), NEW bound \in BOOLEAN
    PROVE  Real(connect(e, bound))
<1> DEFINE c == [e EXCEPT !.connecting_timer_ = TRUE, !.open = TRUE]
           b == [c EXCEPT !.connecting_timer_ = FALSE]
           r == [c EXCEPT !.state_ = "CONNECTING", !.aborted_restart_count_ = 0]
           g == [r EXCEPT !.link = "connecting"]
<1>1. c \in Endpoints /\ Frame(e, c)
  BY DEF Endpoints, Frame
<1>2. connect(e, bound) =
        IF ~bound THEN Post(b, [op |-> "connect_cbk", err |-> "error"])
        ELSE IF r.link = "none" THEN g ELSE Post(r, Completion("connected", r.link = "up"))
  BY DEF connect
<1> HIDE DEF c
<1>3. b \in Endpoints /\ Frame(c, b)
  BY <1>1 DEF Endpoints, Frame
<1>4. r \in Endpoints /\ Frame(c, r)
  <2>1. 0 \in 0..tcp_restart_aborts_max_
    BY EndpointAssumption
  <2>2. r \in Endpoints
    BY <1>1, <2>1 DEF Endpoints
  <2>3. Frame(c, r)
    BY <1>1 DEF Endpoints, Frame
  <2> QED BY <2>2, <2>3
<1> HIDE DEF b, r
<1>5. Frame(r, g)
  BY <1>4 DEF Endpoints, Frame
<1> HIDE DEF g
<1>6. Real(b) /\ Real(r) /\ Real(g)
  BY <1>1, <1>3, <1>4, <1>5, RealFramed
<1>7. [op |-> "connect_cbk", err |-> "error"] \in Handlers
  BY DEF Handlers
<1>8. Completion("connected", r.link = "up") \in Handlers
  <2>1. PICK v \in BOOLEAN : v = (r.link = "up")
    OBVIOUS
  <2> QED BY <2>1, CompletionKnown
<1> QED BY <1>2, <1>3, <1>4, <1>6, <1>7, <1>8, PostReal

\* A message that is accepted is being sent already, or its write is posted.
LEMMA QueueTrainReal ==
    ASSUME NEW e \in Endpoints, Real(e), NEW m \in 1..MaxMessages
    PROVE  Real(queue_train(e, m))
<1> DEFINE a == Append(e.queue_, m)
           q == [e EXCEPT !.queue_ = a]
           h == [op |-> "send_queued", entry |-> Head(a)]
           f == Post([q EXCEPT !.is_sending_ = TRUE], h)
<1>1. a \in Seq(1..MaxMessages) /\ a # <<>>
  <2>1. e.queue_ \in Seq(1..MaxMessages)
    BY DEF Endpoints
  <2>2. ASSUME NEW S, NEW u \in Seq(S), NEW x \in S PROVE Append(u, x) # <<>> /\ Append(u, x) \in Seq(S)
    BY Appended
  <2> QED BY <2>1, <2>2
<1>2. queue_train(e, m) = IF q.is_sending_ THEN q ELSE Post([q EXCEPT !.is_sending_ = TRUE],
                                                           [op |-> "send_queued", entry |-> Head(q.queue_)])
  BY DEF queue_train
<1> HIDE DEF a
<1>3. /\ q.queue_ = a /\ q.writes = e.writes /\ q.strand_ = e.strand_
      /\ q.is_sending_ = e.is_sending_ /\ q.sending_blocked_ = e.sending_blocked_
  BY DEF Endpoints
<1>4. CASE e.is_sending_
  <2>1. queue_train(e, m) = q
    BY <1>2, <1>3, <1>4
  <2> HIDE DEF q
  <2> QED BY <1>1, <1>3, <1>4, <2>1 DEF Real, Working
<1>5. CASE ~e.is_sending_
  <2>1. queue_train(e, m) = f
    BY <1>2, <1>3, <1>5
  <2>2. f.queue_ = a /\ f.strand_ = Append(e.strand_, h)
    <3> HIDE DEF h
    <3> QED BY DEF Post, Endpoints
  <2>3. h \in Handlers /\ h.op = "send_queued"
    BY <1>1, Tailed DEF Handlers
  <2> HIDE DEF f, h
  <2>4. Len(e.strand_) + 1 \in DOMAIN f.strand_ /\ f.strand_[Len(e.strand_) + 1] = h
    <3>1. e.strand_ \in Seq(Handlers)
      BY DEF Endpoints
    <3> QED BY <2>2, <2>3, <3>1, Appended
  <2> QED BY <1>1, <2>1, <2>2, <2>3, <2>4 DEF Real, Working
<1> QED BY <1>4, <1>5

\* Taking a handler off the strand: what is under way besides it still is.
LEMMA RestReal ==
    ASSUME IInv, Real(ep), ep.strand_ # <<>>
    PROVE  /\ Arg.op \notin {"send_queued", "sent"} => Real(Rest)
           /\ Rest.queue_ # <<>> \/ ~Rest.is_sending_ \/ Rest.sending_blocked_
<1> DEFINE s == ep.strand_
<1>1. ep \in Endpoints /\ s \in Seq(Handlers)
  BY DEF IInv, Sound, Endpoints
<1>2. /\ Head(s) = s[1] /\ Len(s) \in Nat \ {0} /\ DOMAIN s = 1..Len(s)
      /\ DOMAIN Tail(s) = 1..(Len(s) - 1) /\ \A i \in 1..(Len(s) - 1) : Tail(s)[i] = s[i + 1]
  BY <1>1, Tailed
<1>3. /\ Rest.queue_ = ep.queue_ /\ Rest.writes = ep.writes /\ Rest.strand_ = Tail(s)
      /\ Rest.is_sending_ = ep.is_sending_ /\ Rest.sending_blocked_ = ep.sending_blocked_
  BY <1>1 DEF Rest, Endpoints
<1> HIDE DEF s
<1>4. ASSUME NEW i \in DOMAIN s, s[i].op # Head(s).op
      PROVE  i - 1 \in DOMAIN Tail(s) /\ Tail(s)[i - 1] = s[i]
  <2>1. i # 1 /\ i \in 1..Len(s)
    BY <1>2, <1>4
  <2>2. i - 1 \in 1..(Len(s) - 1) /\ (i - 1) + 1 = i
    BY <1>2, <2>1
  <2> QED BY <1>2, <2>2
<1>5. Arg.op \notin {"send_queued", "sent"} /\ Working(ep) => Working(Rest)
  BY <1>3, <1>4 DEF Working, Arg, s
<1> QED BY <1>3, <1>5 DEF Real

\* Real is preserved by every step.
LEMMA RealStep ==
    ASSUME IInv, Real(ep), [EndpointNext]_endpointVars
    PROVE  Real(ep')
<1>0. Sound(ep, accepted, delivered, ~unaccounted) /\ ep \in Endpoints
  BY DEF IInv, Sound
<1>1. CASE RunConnect
  <2>1. PICK bound \in BOOLEAN : ep' = connect(Rest, bound)
    BY <1>1 DEF RunConnect
  <2>2. Rest \in Endpoints /\ Real(Rest)
    BY <1>1, RestSound, RestReal DEF RunConnect, OnStrand, Arg, Sound
  <2> QED BY <2>1, <2>2, ConnectReal
<1>2. CASE RunConnected
  <2>1. Sound(Rest, accepted, delivered, ~unaccounted) /\ Real(Rest)
    BY <1>2, RestSound, RestReal DEF RunConnected, OnStrand, Arg
  <2> QED BY <1>2, <2>1, ConnectCbkReal DEF RunConnected
<1>3. CASE RunSent
  <2>1. ep.strand_ # <<>> /\ Arg.op = "sent"
    BY <1>3 DEF RunSent, OnStrand, Arg
  <2>2. Arg.err \in Errors
    <3>1. Arg \in Handlers
      BY <2>1, RestSound
    <3> QED BY <2>1, <3>1 DEF Handlers
  <2> QED BY <1>3, <2>1, <2>2, RestSound, RestReal, SendCbkReal DEF RunSent
<1>4. CASE RunSendQueued
  <2>1. ep.strand_ # <<>> /\ Arg.op = "send_queued"
    BY <1>4 DEF RunSendQueued, OnStrand, Arg
  <2>2. Arg.entry \in 1..MaxMessages
    <3>1. Arg \in Handlers
      BY <2>1, RestSound
    <3> QED BY <2>1, <3>1 DEF Handlers
  <2> QED BY <1>4, <2>1, <2>2, RestSound, RestReal, SendQueuedReal DEF RunSendQueued, Sound
<1>5. CASE RunHandler
  <2>1. ep.strand_ # <<>> /\ Arg.op \in {"connect_cbk", "received", "restart", "close"}
    BY <1>5 DEF RunHandler, OnStrand, Arg
  <2>2. Sound(Rest, accepted, delivered, ~unaccounted) /\ Real(Rest) /\ Rest \in Endpoints
    BY <2>1, RestSound, RestReal DEF Sound
  <2>3. CASE ep' = connect_cbk(Rest, Arg.err)
    BY <2>2, <2>3, ConnectCbkReal
  <2>4. CASE ep' = receive_cbk(Rest, Arg.err)
    BY <2>2, <2>4, ReceiveCbkReal
  <2>5. CASE \E late \in {FALSE, ~ep.open} : ep' = restart(Rest, Arg.force, late)
    BY <2>2, <2>5, RestartReal
  <2>6. CASE ep' = shutdown_and_close_socket(Rest)
    BY <2>2, <2>6, CloseReal
  <2> QED BY <1>5, <2>3, <2>4, <2>5, <2>6 DEF RunHandler
<1>6. CASE TimerExpires \/ ConnectingTimerExpires \/ ConnectionLost
  <2>1. Frame(ep, ep')
    <3>1. CASE TimerExpires
      BY <1>0, <3>1 DEF TimerExpires, Frame, Endpoints
    <3>2. CASE ConnectingTimerExpires
      BY <1>0, <3>2 DEF ConnectingTimerExpires, Frame, Endpoints
    <3>3. CASE ConnectionLost
      BY <1>0, <3>3 DEF ConnectionLost, Frame, Endpoints
    <3> QED BY <1>6, <3>1, <3>2, <3>3
  <2> QED BY <2>1, RealFramed
<1>7. CASE RunTimerHandler
  <2>1. PICK t \in ep.due :
          LET e == [ep EXCEPT !.due = @ \ {t}]
          IN  \/ ep' = wait_connect_cbk(e) \/ ep' = wait_connecting_cbk(e)
              \/ ep' = wait_until_sent(e, t = "sent_timeout", FALSE) \/ ep' = set_established(e)
    BY <1>7 DEF RunTimerHandler
  <2> DEFINE e == [ep EXCEPT !.due = @ \ {t}]
  <2>2. e \in Endpoints /\ Frame(ep, e)
    BY <1>0 DEF Endpoints, Frame
  <2>3. \/ ep' = wait_connect_cbk(e) \/ ep' = wait_connecting_cbk(e)
        \/ ep' = wait_until_sent(e, t = "sent_timeout", FALSE) \/ ep' = set_established(e)
    BY <2>1
  <2> HIDE DEF e
  <2>4. Sound(e, accepted, delivered, ~unaccounted) /\ Real(e)
    BY <1>0, <2>2, RealFramed, SoundWhenSame DEF Frame
  <2>5. CASE ep' = wait_connect_cbk(e)
    <3>1. [op |-> "connect"] \in Handlers
      BY DEF Handlers
    <3> QED BY <2>2, <2>4, <2>5, <3>1, PostReal DEF wait_connect_cbk
  <2>6. CASE ep' = wait_connecting_cbk(e)
    BY <2>4, <2>6, ConnectCbkReal DEF wait_connecting_cbk
  <2>7. CASE ep' = wait_until_sent(e, t = "sent_timeout", FALSE)
    BY <2>2, <2>4, <2>7, WaitUntilSentReal
  <2>8. CASE ep' = set_established(e)
    BY <2>2, <2>4, <2>8, PlainFrame, RealFramed
  <2> QED BY <2>3, <2>5, <2>6, <2>7, <2>8
<1>8. CASE Connects
  <2>1. PICK ok \in BOOLEAN : ep' = Post([ep EXCEPT !.link = IF ok THEN "up" ELSE "dead"],
                                         Completion("connected", ok))
    BY <1>8 DEF Connects
  <2> DEFINE f == [ep EXCEPT !.link = IF ok THEN "up" ELSE "dead"]
  <2>2. f \in Endpoints /\ Frame(ep, f)
    BY <1>0 DEF Endpoints, Frame
  <2>3. ep' = Post(f, Completion("connected", ok))
    BY <2>1
  <2> HIDE DEF f
  <2> QED BY <2>2, <2>3, RealFramed, CompletionKnown, PostReal
<1>9. CASE Writes
  <2> DEFINE f == [ep EXCEPT !.writes = Tail(@)]
             h == Completion("sent", ep.link = "up")
  <2>1. ep' = Post(f, h)
    BY <1>9 DEF Writes
  <2>2. /\ f.queue_ = ep.queue_ /\ f.strand_ = ep.strand_ /\ f.is_sending_ = ep.is_sending_
        /\ f.sending_blocked_ = ep.sending_blocked_
    BY <1>0 DEF Endpoints
  <2>3. h \in Handlers /\ h.op = "sent"
    BY DEF Completion, Handlers, Errors
  <2>4. /\ ep'.queue_ = f.queue_ /\ ep'.strand_ = Append(f.strand_, h)
        /\ ep'.is_sending_ = f.is_sending_ /\ ep'.sending_blocked_ = f.sending_blocked_
    <3> HIDE DEF h
    <3> QED BY <1>0, <2>1 DEF Post, Endpoints
  <2> HIDE DEF f, h
  <2>5. Len(ep.strand_) + 1 \in DOMAIN ep'.strand_ /\ ep'.strand_[Len(ep.strand_) + 1] = h
    <3>1. ep.strand_ \in Seq(Handlers)
      BY <1>0 DEF Endpoints
    <3> QED BY <2>2, <2>3, <2>4, <3>1, Appended
  <2> QED BY <2>2, <2>3, <2>4, <2>5 DEF Real, Working
<1>10. CASE ReadEnds \/ Reads
  <2>1. PICK err \in {"ok", "eof", "broken"} :
          ep' = Post([ep EXCEPT !.reads = @ - 1], [op |-> "received", err |-> err]) /\ ep.reads > 0
    BY <1>10 DEF ReadEnds, Reads
  <2> DEFINE f == [ep EXCEPT !.reads = @ - 1]
             h == [op |-> "received", err |-> err]
  <2>2. f \in Endpoints /\ Frame(ep, f)
    <3>1. ep.reads - 1 \in Nat
      BY <1>0, <2>1 DEF Endpoints
    <3> QED BY <1>0, <3>1 DEF Endpoints, Frame
  <2>3. h \in Handlers
    BY DEF Handlers
  <2>4. ep' = Post(f, h)
    BY <2>1
  <2> HIDE DEF f, h
  <2> QED BY <2>2, <2>3, <2>4, RealFramed, PostReal
<1>11. CASE QueueTrain
  <2>1. accepted + 1 \in 1..MaxMessages
    BY <1>0, <1>11, EndpointAssumption DEF QueueTrain, Sound
  <2> QED BY <1>0, <1>11, <2>1, QueueTrainReal DEF QueueTrain
<1>12. CASE Restart
  <2>1. [op |-> "restart", force |-> FALSE] \in Handlers
    BY DEF Handlers
  <2> QED BY <1>0, <1>12, <2>1, PostReal DEF Restart
<1>13. CASE Stop
  <2>1. ep'.sending_blocked_
    BY <1>0, <1>13 DEF Stop, stop, Post, Endpoints
  <2> QED BY <2>1, RealFramed
<1>14. CASE UNCHANGED endpointVars
  BY <1>14 DEF endpointVars
<1> QED BY <1>1, <1>2, <1>3, <1>4, <1>5, <1>6, <1>7, <1>8, <1>9, <1>10, <1>11, <1>12, <1>13, <1>14
        DEF EndpointNext, Strand, Network

-----------------------------------------------------------------------------
(* The theorems                                                            *)

\* The fields of an endpoint keep their types, and a restart is never aborted more
\* often than tcp_restart_aborts_max_ times in a row (tcp_client_endpoint_impl::restart).
THEOREM EndpointTyped == EndpointSpec => []EndpointTypeOK
<1>1. IInv => EndpointTypeOK
  BY EndpointAssumption DEF IInv, Sound, EndpointTypeOK
<1>2. IInv /\ [EndpointNext]_endpointVars => IInv'
  BY StepSound
<1> QED BY <1>1, <1>2, InitSound, PTL DEF EndpointSpec

\* A client endpoint implements OrderedChannel: whatever fails, the peer is sent the
\* messages in the order in which they were queued, some perhaps again, as long as
\* every write was the front of the queue when it was started.
THEOREM EndpointKeepsOrder == EndpointSpec => MessagesInOrder
<1>1. EndpointInit => InOrder!ChannelInit
  BY DEF EndpointInit, InOrder!ChannelInit
<1>2. IInv /\ [EndpointNext]_endpointVars => IInv' /\ [InOrder!ChannelNext]_(InOrder!channelVars)
  BY StepSound
<1> QED BY <1>1, <1>2, InitSound, PTL DEF EndpointSpec, MessagesInOrder, InOrder!ChannelSpec

\* is_sending_ never keeps a queue waiting for a write that was not started: through
\* lost connections, restarts and timeouts a send_queued, a write or its completion is
\* under way (client_endpoint_impl::queue_train, send_cbk, connect_cbk).
THEOREM EndpointSendsOn == EndpointSpec => []SendingIsReal
<1>1. EndpointInit => Real(ep)
  BY DEF EndpointInit, Real
<1>2. IInv /\ Real(ep) /\ [EndpointNext]_endpointVars => IInv' /\ Real(ep)'
  BY StepSound, RealStep
<1>3. Real(ep) => SendingIsReal
  BY DEF Real, Working, SendingIsReal
<1> QED BY <1>1, <1>2, <1>3, InitSound, PTL DEF EndpointSpec
============================================================================
