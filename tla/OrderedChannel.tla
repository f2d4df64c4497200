--------------------------- MODULE OrderedChannel ---------------------------
(***************************************************************************)
(* What a client endpoint promises of the messages it accepts, numbered in *)
(* the order it accepted them: it hands them to the peer in that order.    *)
(* It may leave some out (a restart drops what is queued) and it may hand  *)
(* one over again, but it never goes back behind one it handed over, as    *)
(* long as it keeps account of what it is writing.                         *)
(***************************************************************************)
EXTENDS Naturals

VARIABLES
    accepted,   \* number of messages accepted
    delivered,  \* the last one handed to the peer, 0 if there is none
    kept        \* is the order kept?

channelVars == <<accepted, delivered, kept>>

ChannelInit == accepted = 0 /\ delivered = 0 /\ kept = TRUE

Accept == accepted' = accepted + 1 /\ UNCHANGED <<delivered, kept>>

Deliver ==
    \E m \in 1..accepted :
        /\ kept => m >= delivered
        /\ delivered' = m
        /\ UNCHANGED <<accepted, kept>>

Break == kept' = FALSE /\ UNCHANGED <<accepted, delivered>>

ChannelNext == Accept \/ Deliver \/ Break

ChannelSpec == ChannelInit /\ [][ChannelNext]_channelVars
============================================================================
