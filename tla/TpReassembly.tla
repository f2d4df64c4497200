---------------------------- MODULE TpReassembly ----------------------------
(***************************************************************************)
(* SOME/IP-TP: how tp_split_message cuts a message into segments, and how  *)
(* a tp_reassembler puts together what UDP delivers of them, each of them  *)
(* any number of times, in any order, or never.                            *)
(*                                                                         *)
(* Payloads are sequences of blocks of 16 bytes, the unit of the offset    *)
(* field; block i of message m is <<m, i>>.  Segments are full, except     *)
(* where the message ends: tp_split_message starts them at the multiples   *)
(* of their length, other peers may start them anywhere, so that they      *)
(* overlap (test modes OVERLAP and OVERLAP_FRONT_BACK).  The checks of     *)
(* check_lengths that such segments always pass are left out.  Messages of *)
(* one id share the entry of tp_messages_, those of one session as well    *)
(* are told apart by nothing: the peer restarted in between.               *)
(*                                                                         *)
(* Segments arrive on one thread of the io_context, the timer's handler    *)
(* runs on another: process_tp_message starts the timer and stores the     *)
(* segment under different mutexes, in two steps.  Time advances in ticks, *)
(* and only when no handler is due.                                        *)
(***************************************************************************)
EXTENDS Integers, Sequences, FiniteSets

CONSTANTS
    Messages,             \* the messages of the peers, [id, session, length] each
    SegmentLength,        \* _max_segment_length, in blocks
    max_tp_message_size_, \* in blocks, the header counts as one
    FiveSeconds,          \* in ticks
    MaxArrivals,          \* bound on the segments that arrive
    MaxReopens            \* bound on the restarts of the endpoint

ASSUME FiveSecondsAssumption == FiveSeconds \in Nat \ {0}

VARIABLES
    tp_messages_,           \* the unfinished message of each id that has one
    cleanup_timer_running_,
    cleanup_timer_,         \* ticks until it expires, -1: not waiting
    cleanup_due,            \* it expired, its handler has not run
    segment,                \* a segment for which only the timer was started, or {}
    received,               \* what on_message was called with
    arrivals, reopens,
    lapse                   \* was the timer lost ("open"), and started since ("healed")?

tpVars == <<tp_messages_, cleanup_timer_running_, cleanup_timer_, cleanup_due, segment,
            received, arrivals, reopens, lapse>>

ids == {m.id : m \in Messages}

Min2(a, b) == IF a < b THEN a ELSE b

\* Segment s of message m, with its payload and the more-segments flag.
SegmentAt(m, start) ==
    LET end == Min2(start + SegmentLength, m.length) - 1
    IN  [of |-> m, start |-> start, end |-> end, more |-> end < m.length - 1]

tp_split_message(m) == {SegmentAt(m, k * SegmentLength) :
                            k \in {j \in 0..m.length : j * SegmentLength < m.length}}

\* What a peer may send of a message.
Segments(m) == tp_split_message(m) \cup {SegmentAt(m, start) : start \in 0..m.length - 1}

Payload(s, from, to) == [i \in 1..to - from + 1 |->
                            IF from + i - 1 <= s.end THEN <<s.of, from + i - 1>> ELSE "junk"]

-----------------------------------------------------------------------------
(* tp_message                                                              *)

Resize(message, n) == [i \in 1..n |-> IF i <= Len(message) THEN message[i] ELSE "zero"]

Copy(message, at, blocks) ==
    [i \in 1..Len(message) |-> IF i > at /\ i <= at + Len(blocks) THEN blocks[i - at] ELSE message[i]]

Size(s) == s.end - s.start + 1

check_lengths(e, s) ==
    e.current_message_size_ + Size(s) <= max_tp_message_size_ /\ s.start + Size(s) <= max_tp_message_size_

\* The first segment of a message; message_ without its header.
tp_message(s) ==
    LET e == [session |-> s.of.session, age |-> 0, segments_ |-> {}, message_ |-> <<>>,
              current_message_size_ |-> 0, last_segment_received_ |-> FALSE]
    IN  IF ~check_lengths(e, s) THEN e
        ELSE [e EXCEPT !.segments_ = {[start |-> s.start, end |-> s.end]},
                       !.message_ = Resize(<<>>, s.start) \o Payload(s, s.start, s.end),
                       !.current_message_size_ = 1 + Size(s),
                       !.last_segment_received_ = s.start # 0 /\ ~s.more]

\* segment_t::operator<.  It is no order where one segment lies strictly inside another,
\* which can only be an empty one here: the branches taken for it agree.
Before(a, b) == a.start < b.start \/ (a.start = b.start /\ a.end < b.end)

Last_(segs)  == CHOOSE t \in segs : \A u \in segs : u = t \/ Before(u, t)
First_(segs) == CHOOSE t \in segs : \A u \in segs : u = t \/ Before(t, u)

\* The entry with segment s as [start, end], its payload written at start.
Stored(e, s, start, end, message) ==
    [e EXCEPT !.segments_ = @ \cup {[start |-> start, end |-> end]},
              !.message_ = message,
              !.current_message_size_ = @ + end - start + 1,
              !.last_segment_received_ = @ \/ ~s.more]

\* Behind all others: appended, without what the previous segment holds.
AddBehind(e, s, before) ==
    LET prev == Last_(before)
        padded == Resize(e.message_, s.start)
    IN  IF before = {} THEN Stored(e, s, s.start, s.end, padded \o Payload(s, s.start, s.end))
        ELSE IF prev.end < s.start
        THEN Stored(e, s, s.start, s.end,
                    (IF prev.end + 1 = s.start THEN e.message_ ELSE padded) \o Payload(s, s.start, s.end))
        ELSE Stored(e, s, prev.end + 1, s.end, e.message_ \o Payload(s, prev.end + 1, s.end))

\* In front of another: copied into the gap.  Where it overlaps the previous segment and
\* ends in the gap, the copy goes on to the next one.
AddBetween(e, s, before, after) ==
    LET next == First_(after)
        overlaps == before # {} /\ Last_(before).end >= s.start
        start == IF overlaps THEN Last_(before).end + 1 ELSE s.start
        end == IF s.end < next.start THEN s.end ELSE next.start - 1
    IN  Stored(e, s, start, end,
               Copy(e.message_, start, Payload(s, start, IF overlaps THEN next.start - 1 ELSE end)))

add_segment(e, s) ==
    LET seg == [start |-> s.start, end |-> s.end]
        before == {t \in e.segments_ : Before(t, seg)}
        after == {t \in e.segments_ : Before(seg, t)}
    IN  IF ~check_lengths(e, s) \/ seg \in e.segments_ THEN e
        ELSE IF after = {} THEN AddBehind(e, s, before)
        ELSE AddBetween(e, s, before, after)

\* Nothing is missing before, between or, once the last one is here, behind the segments.
Complete(e) ==
    /\ e.last_segment_received_
    /\ \A seg \in e.segments_ :
        LET before == {t \in e.segments_ : Before(t, seg)}
        IN  IF before = {} THEN seg.start = 0 ELSE seg.start = Last_(before).end + 1

-----------------------------------------------------------------------------
(* tp_reassembler                                                          *)

Entry(id) == tp_messages_[id]

With(id, e) == [i \in DOMAIN tp_messages_ \cup {id} |-> IF i = id THEN e ELSE tp_messages_[i]]
Without(gone) == [i \in DOMAIN tp_messages_ \ gone |-> tp_messages_[i]]

TpInit ==
    /\ tp_messages_ = <<>> /\ cleanup_timer_running_ = FALSE /\ cleanup_timer_ = -1 /\ cleanup_due = FALSE
    /\ segment = {} /\ received = {} /\ arrivals = 0 /\ reopens = 0 /\ lapse = "none"

\* process_tp_message, up to cleanup_timer_start.
SegmentArrives ==
    /\ segment = {} /\ arrivals < MaxArrivals
    /\ arrivals' = arrivals + 1
    /\ \E m \in Messages : \E s \in Segments(m) : segment' = {s}
    /\ cleanup_timer_running_' = TRUE
    /\ cleanup_timer_' = IF cleanup_timer_running_ THEN cleanup_timer_ ELSE FiveSeconds
    /\ lapse' = IF lapse = "open" /\ ~cleanup_timer_running_ THEN "healed" ELSE lapse
    /\ UNCHANGED <<tp_messages_, cleanup_due, received, reopens>>

\* Mutant: a segment of another session is added to the message at hand.
AddToAnySession(s) ==
    LET id == s.of.id
    IN  IF id \notin DOMAIN tp_messages_ THEN tp_message(s) ELSE add_segment(Entry(id), s)

\* A segment of another session replaces the message at hand.
Processed(s) ==
    LET id == s.of.id
    IN  IF id \notin DOMAIN tp_messages_ \/ Entry(id).session # s.of.session
        THEN tp_message(s)
        ELSE add_segment(Entry(id), s)

process_tp_message ==
    /\ \E s \in segment :
        LET e == Processed(s)
        IN  IF Complete(e)
            THEN /\ received' = received \cup {[id |-> s.of.id, session |-> e.session, message_ |-> e.message_]}
                 /\ tp_messages_' = Without({s.of.id})
            ELSE /\ tp_messages_' = With(s.of.id, e)
                 /\ UNCHANGED received
    /\ segment' = {}
    /\ UNCHANGED <<cleanup_timer_running_, cleanup_timer_, cleanup_due, arrivals, reopens, lapse>>

\* Mutant: the age is compared with the wrong constant.
Older == {id \in DOMAIN tp_messages_ : Entry(id).age > 2 * FiveSeconds}

\* The unfinished messages that are old.
Old == {id \in DOMAIN tp_messages_ : Entry(id).age > FiveSeconds}

\* The handler of the timer, with cleanup_unfinished_messages.
cleanup_timer_cbk ==
    /\ cleanup_due /\ cleanup_due' = FALSE
    /\ tp_messages_' = Without(Old)
    /\ IF DOMAIN tp_messages_ \ Old # {}
       THEN cleanup_timer_' = FiveSeconds /\ UNCHANGED <<cleanup_timer_running_, lapse>>
       ELSE /\ cleanup_timer_running_' = FALSE
            /\ lapse' = IF segment # {} THEN "open" ELSE lapse
            /\ UNCHANGED cleanup_timer_
    /\ UNCHANGED <<segment, received, arrivals, reopens>>

\* udp_server_endpoint_impl::restart: stop() cancels the timer.  No segment is being
\* processed, that happens under the mutex of the endpoint.
Reopen ==
    /\ segment = {} /\ reopens < MaxReopens
    /\ reopens' = reopens + 1
    /\ cleanup_timer_' = -1
    /\ lapse' = IF cleanup_timer_ >= 0 THEN "open" ELSE lapse
    /\ UNCHANGED <<tp_messages_, cleanup_timer_running_, cleanup_due, segment, received, arrivals>>

TimePasses ==
    /\ ~cleanup_due /\ segment = {}
    /\ cleanup_timer_ > 0 \/ DOMAIN tp_messages_ # {}
    /\ tp_messages_' = [id \in DOMAIN tp_messages_ |->
                            [Entry(id) EXCEPT !.age = Min2(@ + 1, 2 * FiveSeconds + 1)]]
    /\ cleanup_timer_' = IF cleanup_timer_ > 1 THEN cleanup_timer_ - 1 ELSE -1
    /\ cleanup_due' = (cleanup_timer_ = 1)
    /\ UNCHANGED <<cleanup_timer_running_, segment, received, arrivals, reopens, lapse>>

TpNext == SegmentArrives \/ process_tp_message \/ cleanup_timer_cbk \/ Reopen \/ TimePasses

TpSpec == TpInit /\ [][TpNext]_tpVars

-----------------------------------------------------------------------------
(* Properties                                                              *)

\* The messages of a session.
Of(id, session) == {m \in Messages : m.id = id /\ m.session = session}

\* Every block of a message handed to on_message is the one its sender put there, no gap,
\* no byte behind a segment and no block of another session; where only one message of
\* the session exists it is that message, whole; it has the configured size at most; and
\* none that nothing is missing of stays in the table, whatever overlaps.
Reassembled ==
    /\ \A r \in received :
        LET same == Of(r.id, r.session)
        IN  /\ \A i \in DOMAIN r.message_ : \E m \in same : r.message_[i] = <<m, i - 1>>
            /\ \A m \in same : same = {m} => Len(r.message_) = m.length
            /\ Len(r.message_) + 1 <= max_tp_message_size_
    /\ \A id \in DOMAIN tp_messages_ :
        LET blocks == UNION {seg.start..seg.end : seg \in Entry(id).segments_}
        IN  \A m \in Messages : Of(id, Entry(id).session) = {m} => blocks # 0..m.length - 1

\* An unfinished message is always watched by the cleanup timer, but for two schedules:
\* the timer ends between its check and the insertion, or the endpoint is restarted.
UnfinishedIsTimed ==
    DOMAIN tp_messages_ # {} => cleanup_timer_ > 0 \/ cleanup_due \/ lapse = "open"

\* The timer deletes an unfinished message after ten seconds at most.
DeletedInTime ==
    lapse = "none" => \A id \in DOMAIN tp_messages_ : Entry(id).age <= 2 * FiveSeconds
============================================================================
