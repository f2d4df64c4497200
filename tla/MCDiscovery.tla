----------------------------- MODULE MCDiscovery -----------------------------
(* Instances of the two modules of service discovery for TLC: the offers,   *)
(* and the subscriptions of remote subscribers.  They do not share state:   *)
(* focus says which one is checked, the other stays as it begins.           *)
EXTENDS RemoteSubscriptions, ServiceDiscovery

VARIABLE focus

suiteVars == <<focus, vars, sdVars>>

SuiteInit == Init /\ SdInit /\ focus \in {"offers", "subscriptions"}

SuiteNext == /\ \/ focus = "offers" /\ SdNext /\ UNCHANGED vars
                \/ focus = "subscriptions" /\ Next /\ UNCHANGED sdVars
             /\ UNCHANGED focus

(* Fairness and SdFairness, for the module that is checked.                 *)
SuiteFairness ==
    /\ WF_vars(focus = "subscriptions" /\ SdStep)
    /\ WF_vars(focus = "subscriptions" /\ AnswerStep)
    /\ WF_vars(focus = "subscriptions" /\ TimerStep)
    /\ WF_vars(focus = "subscriptions" /\ \E o \in subscriptions_ : Elapse(o))
    /\ WF_sdVars(focus = "offers" /\ NodeHandler)
    /\ WF_sdVars(focus = "offers" /\ PeerHandler)
    /\ WF_sdVars(focus = "offers" /\ on_main_phase_timer_expired)
    /\ WF_sdVars(focus = "offers" /\ check_ttl)
    /\ \A c \in Channels : WF_sdVars(focus = "offers" /\ discovery_on_message(c))

SuiteSpec == SuiteInit /\ [][SuiteNext]_suiteVars /\ SuiteFairness
==============================================================================
