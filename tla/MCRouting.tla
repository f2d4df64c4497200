----------------------------- MODULE MCRouting ------------------------------
(* Instances of the modules of the routing manager host for TLC: the local  *)
(* offers, the registration of an application, and the subscriptions at     *)
(* remote services.  They do not share state: focus says which one is       *)
(* checked, the others stay as they begin.                                  *)
EXTENDS LocalOffers, Registration, Subscriber

VARIABLE focus

vars == <<focus, offerVars, regVars, subVars>>

Init == /\ OffersInit /\ RegInit /\ SubInit
        /\ focus \in {"offers", "registration", "subscriber"}
        /\ focus # "registration" => host.up /\ ~rc.pending_offers_

Next == /\ \/ focus = "offers" /\ OffersNext /\ UNCHANGED <<regVars, subVars>>
           \/ focus = "registration" /\ RegNext /\ UNCHANGED <<offerVars, subVars>>
           \/ focus = "subscriber" /\ SubNext /\ UNCHANGED <<offerVars, regVars>>
        /\ UNCHANGED focus

(* OffersFairness, RegFairness and SubFairness, for the module that is      *)
(* checked.                                                                 *)
Fairness == /\ WF_offerVars(focus = "offers" /\ Due)
            /\ WF_offerVars(focus = "offers" /\ client_registration_func)
            /\ WF_regVars(focus = "registration" /\ Progress)
            /\ \A c \in Applications : WF_subVars(focus = "subscriber" /\ Handle(c))
            /\ WF_subVars(focus = "subscriber" /\ process_offer(TRUE))
            /\ WF_subVars(focus = "subscriber" /\ process_answer)
            /\ WF_subVars(focus = "subscriber" /\ (send_expired \/ delete_expired))
            /\ WF_subVars(focus = "subscriber" /\ (on_endpoint_connected \/ send_connected))
            /\ WF_subVars(focus = "subscriber" /\ Receive(TRUE))

Spec == Init /\ [][Next]_vars /\ Fairness

\* Registers of the client that is run: through lost connections, lost answers and
\* crashes of the host it is registered again and again.
RegistersAgain == focus = "registration" => Registers
=============================================================================
