------------------------- MODULE MCApplicationLive --------------------------
(***************************************************************************)
(* Liveness of an application for TLC: of one that is started and stopped, *)
(* and, when alone, of the dispatchers of one that runs for ever, with     *)
(* more threads and handlers than the first has room for.                  *)
(***************************************************************************)
EXTENDS Application

VARIABLE alone

Dispatchers == INSTANCE Dispatcher
    WITH Threads <- 1..4, MaxDispatchers <- 4, MaxHandlers <- 3, Prompt <- TRUE

\* Everything of the application but its dispatchers, before its start.
NotStarted ==
    /\ userPc = "idle" /\ starts = 0
    /\ stopped_ = FALSE /\ stopped_called_ = FALSE /\ block_stop_condition_ = FALSE
    /\ io_stopped = FALSE /\ stop_caller_id_ = NoThread /\ stopping = {}
    /\ shutdownPc = "none" /\ ioPc = "none" /\ detached = {}

LiveInit == \/ alone = FALSE /\ Init
            \/ alone = TRUE /\ Dispatchers!RunningInit /\ NotStarted

LiveNext == /\ UNCHANGED alone
            /\ \/ ~alone /\ Next
               \/ alone /\ Dispatchers!DispatchNext /\ UNCHANGED lifeVars

\* Fairness of Application and DispatchFairness, each for its own case.
LiveFairness ==
    /\ WF_vars(~alone /\ (LeaveIo \/ JoinShutdown \/ Release \/ StartReturn))
    /\ WF_vars(~alone /\ ShutdownStep) /\ WF_vars(~alone /\ IoEnd)
    /\ WF_vars(~alone /\ StopFromSignal) /\ WF_vars(~alone /\ Create)
    /\ \A t \in Threads : /\ WF_vars(~alone /\ Work(t)) /\ WF_vars(~alone /\ Handle(t))
                          /\ WF_vars(~alone /\ StopReturn(t))
    /\ \A t \in 1..4 : /\ WF_dispatchVars(alone /\ Dispatchers!Serve(t))
                       /\ WF_dispatchVars(alone /\ Dispatchers!TimerExpires(t))
    /\ WF_dispatchVars(alone /\ Dispatchers!AnnounceAvailability)
    /\ WF_dispatchVars(alone /\ Dispatchers!Timer)

LiveSpec == LiveInit /\ [][LiveNext]_<<vars, alone>> /\ LiveFairness

HandlersReturn == \A t \in 1..4 : WF_dispatchVars(alone /\ Dispatchers!HandlerReturns(t))

\* If handlers return, every handler queued is started: no wakeup is lost
\* (dispatcher_condition_, get_next_handler).
EveryHandlerStarts ==
    HandlersReturn => \A n \in 1..3 : alone /\ queued >= n ~> n \in Numbers(started)

\* Even if no handler ever returns, the state handlers are started as long as
\* there may be more dispatchers: the timer of a blocked handler gets a new one.
StateHandlersStart ==
    \A n \in 1..3 :
        alone /\ n \in Numbers(SelectSeq(handlers_, LAMBDA h : h.type = "STATE")) ~> n \in Numbers(started)
============================================================================
