---------------------------- MODULE MCEndpoints -----------------------------
(* Instances of the modules of the endpoints for TLC.  They do not share    *)
(* state: focus says which one is checked, the others stay as they begin.   *)
EXTENDS ClientEndpoint, Trains, TpReassembly

VARIABLE focus

vars == <<focus, endpointVars, trainVars, tpVars>>

-----------------------------------------------------------------------------
(* nPDU timings: equal ones, equal ones with a method split by SOME/IP-TP,  *)
(* no debounce time with different retentions, and a debounce time that is  *)
(* longer than the retention.                                               *)

Timing(d1, r1, d2, r2, tp) ==
    [times |-> [m \in {"A", "B"} |-> IF m = "A" THEN [debounce |-> d1, retention |-> r1]
                                                ELSE [debounce |-> d2, retention |-> r2]],
     tp |-> tp]

MCConfigurations == {Timing(1, 2, 1, 2, {}), Timing(1, 2, 1, 2, {"B"}),
                     Timing(0, 3, 0, 1, {}), Timing(2, 1, 1, 2, {})}

(* Two messages of one client that have the same session, one that is too   *)
(* large, and one of another client.                                        *)

Message(id, session, length) == [id |-> id, session |-> session, length |-> length]

MCMessages == {Message("x", 1, 5), Message("x", 1, 3), Message("x", 2, 7), Message("y", 1, 3)}

-----------------------------------------------------------------------------

Init == /\ EndpointInit /\ TrainsInit /\ TpInit
        /\ focus \in {"endpoint", "trains", "reassembly"}
        /\ focus # "trains" => configuration_ = Timing(1, 2, 1, 2, {})

Next ==
    /\ \/ focus = "endpoint" /\ EndpointNext /\ UNCHANGED <<trainVars, tpVars>>
       \/ focus = "trains" /\ TrainsNext /\ UNCHANGED <<endpointVars, tpVars>>
       \/ focus = "reassembly" /\ TpNext /\ UNCHANGED <<endpointVars, trainVars>>
    /\ UNCHANGED focus

(* EndpointFairness and TrainsFairness, for the module that is checked.     *)
Fairness ==
    /\ WF_endpointVars(focus = "endpoint" /\ Strand)
    /\ WF_endpointVars(focus = "endpoint" /\ RunTimerHandler)
    /\ SF_endpointVars(focus = "endpoint" /\ TimerExpires)
    /\ WF_endpointVars(focus = "endpoint" /\ Network)
    /\ WF_trainVars(focus = "trains" /\ Expire) /\ WF_trainVars(focus = "trains" /\ flush)
    /\ WF_trainVars(focus = "trains" /\ Sent) /\ WF_trainVars(focus = "trains" /\ Tick)

Spec == Init /\ [][Next]_vars /\ Fairness

\* EndpointConnects of the endpoint that is run: through failed connects, lost
\* connections and restarts it is connected again and again.
Reconnects == focus = "endpoint" => EndpointConnects
=============================================================================
