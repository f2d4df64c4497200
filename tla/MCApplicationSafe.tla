------------------------- MODULE MCApplicationSafe --------------------------
(***************************************************************************)
(* Safety of an application for TLC.  focus says what moves:               *)
(*   "life"          an application that is started and stopped            *)
(*   "dispatchers"   the dispatchers of one that was started and runs for  *)
(*                   ever, more of them and with handlers of all kinds     *)
(*   "availability"  what such an application knows and reports of the     *)
(*                   availability of services                              *)
(***************************************************************************)
EXTENDS Application, MCAvailability

VARIABLE focus

Dispatchers == INSTANCE Dispatcher
    WITH MaxDispatchers <- 3, MaxHandlers <- 4, Kinds <- {"AVAILABILITY", "MESSAGE", "STATE"}

\* Everything of the application but its dispatchers, after its start.
Started ==
    /\ userPc = "io" /\ starts = 1
    /\ stopped_ = FALSE /\ stopped_called_ = FALSE /\ block_stop_condition_ = FALSE
    /\ io_stopped = FALSE /\ stop_caller_id_ = NoThread /\ stopping = {}
    /\ shutdownPc = "wait" /\ ioPc = "run" /\ detached = {}

SafeInit ==
    /\ \/ focus = "life" /\ Init
       \/ focus \in {"dispatchers", "availability"} /\ Dispatchers!RunningInit /\ Started
    /\ AvailabilityInit
    /\ focus # "availability" => handlers = {Handler(ANY, ANY, ANY, ANY)}

SafeNext ==
    /\ \/ focus = "life" /\ Next /\ UNCHANGED availabilityVars
       \/ focus = "dispatchers" /\ Dispatchers!DispatchNext /\ UNCHANGED <<lifeVars, availabilityVars>>
       \/ focus = "availability" /\ AvailabilityNext /\ UNCHANGED vars
    /\ UNCHANGED focus

SafeSpec == SafeInit /\ [][SafeNext]_<<vars, availabilityVars, focus>>

\* EveryHandlerOnce and ElapsedAreJoinable of the application that runs: no handler
\* is lost or run twice, and remove_elapsed_dispatchers finds every id in
\* dispatchers_.  (shutdown() drops the handlers that are left, and a dispatcher that
\* it detaches may end during the next run of the application and is found no more.)
RunningIsSound == focus = "dispatchers" => EveryHandlerOnce /\ ElapsedAreJoinable
============================================================================
