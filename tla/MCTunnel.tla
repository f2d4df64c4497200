------------------------------ MODULE MCTunnel ------------------------------
(***************************************************************************)
(* The tunnel for TLC: its safety, and, when live, its progress with       *)
(* buffers large enough that iceoryx2 overwrites no sample.                *)
(***************************************************************************)
EXTENDS Tunnel

CONSTANT LiveRequests   \* the requests of the tunnel whose progress is checked

VARIABLE live

Live == INSTANCE Tunnel
    WITH BufferSize <- 3, Requests <- LiveRequests, Calls <- {"EVENT"}, MaxToggles <- 0

MCInit == live \in BOOLEAN /\ Init

MCNext == /\ UNCHANGED live
          /\ \/ ~live /\ Next
             \/ live /\ Live!Next

mcVars == <<vars, live>>

MCFairness ==
    /\ WF_mcVars(live /\ Live!Main /\ UNCHANGED live)
    /\ WF_mcVars(live /\ Live!Starter /\ UNCHANGED live)
    /\ WF_mcVars(live /\ Live!CallbackRest /\ UNCHANGED live)
    /\ WF_mcVars(live /\ Live!Receive /\ UNCHANGED live)
    /\ WF_mcVars(live /\ (\E i \in DOMAIN toRust : Live!GatewayReceive(i)) /\ UNCHANGED live)

MCSpec == MCInit /\ [][MCNext]_mcVars /\ MCFairness

\* GatewayServed of the tunnel whose progress is checked: the gateway that
\* announced itself is told that the tunnel is ready.
GatewayIsServed == live => Live!GatewayServed

\* RequestAnswered of that tunnel: what it forwards to the gateway is answered.
RequestIsAnswered == live => Live!RequestAnswered
============================================================================
