------------------------------- MODULE PubSub -------------------------------
(***************************************************************************)
(* The iceoryx2 publish/subscribe services "TunnelToRust" and              *)
(* "TunnelFromRust", external to the repository and modelled from the way  *)
(* SomeipTunnel opens and uses them: subscriber_max_buffer_size and        *)
(* history_size are both BufferSize, the safe overflow of a full buffer    *)
(* (the default) drops its oldest sample, and a publisher hands its        *)
(* history to a subscriber it meets for the first time, when it next       *)
(* sends.  Every publisher has a buffer of its own at a subscriber; the    *)
(* samples of different publishers are received in any order.              *)
(* A sample is a record; its field "pub" names the publisher.              *)
(***************************************************************************)
EXTENDS Naturals, Sequences, FiniteSets, SequencesExt

CONSTANT BufferSize      \* 20 in the code

ASSUME BufferSizeAssumption == BufferSize \in Nat \ {0}

\* The last BufferSize elements of s.
Newest(s) ==
    IF Len(s) <= BufferSize THEN s ELSE SubSeq(s, Len(s) - BufferSize + 1, Len(s))

\* Positions of the samples of publisher p.
Of(buffer, p) == {i \in DOMAIN buffer : buffer[i].pub = p}

\* The history of a publisher after it sent a sample.
Remember(history, sample) == Newest(Append(history, sample))

\* A subscriber's buffer after a publisher with this history sent a sample.
Deliver(buffer, history, connected, sample) ==
    IF ~connected THEN
        buffer \o Remember(history, sample)
    ELSE IF Cardinality(Of(buffer, sample.pub)) < BufferSize THEN
        Append(buffer, sample)
    ELSE
        Append(RemoveAt(buffer, Min(Of(buffer, sample.pub))), sample)

\* Positions a subscriber may receive from: the oldest sample of a publisher.
Receivable(buffer) ==
    {i \in DOMAIN buffer : \A j \in 1..(i - 1) : buffer[j].pub # buffer[i].pub}
============================================================================
