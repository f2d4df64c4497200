---------------------------- MODULE Application -----------------------------
(***************************************************************************)
(* start(), stop() and shutdown() of an initialised application_impl,      *)
(* around the dispatchers of module Dispatcher: a user thread calls        *)
(* start(), which serves the I/O context until shutdown(), in a thread of  *)
(* its own, has ended the dispatchers and the other I/O thread; stop() may *)
(* be called by another thread, from a handler or by the signal handler.   *)
(* An application may be started again after start() returned.             *)
(*                                                                         *)
(* start_stop_mutex_ is held across steps only while shutdown() joins the  *)
(* I/O thread; every other critical section is one step.                   *)
(***************************************************************************)
EXTENDS Dispatcher

CONSTANTS
    User,           \* a thread of the user that calls stop()
    NoThread,
    MaxStarts,      \* bound on the calls of start()
    LongHandlers,   \* may a handler outlast max_detached_thread_wait_time?
    Signals         \* built with VSOMEIP_ENABLE_SIGNAL_HANDLING?

ASSUME UserAssumption == User \notin Threads /\ NoThread \notin Threads /\ User # NoThread
ASSUME MaxStartsAssumption == MaxStarts \in Nat
ASSUME SwitchAssumption == LongHandlers \in BOOLEAN /\ Signals \in BOOLEAN

VARIABLES
    userPc,                 \* where start() is
    starts,                 \* calls of start() so far
    stopped_, stopped_called_, block_stop_condition_,
    io_stopped,             \* io_.stopped()
    stop_caller_id_,
    stopping,               \* callers of stop() that wait for start() to return
    shutdownPc,             \* where stop_thread_ is
    ioPc,                   \* the thread in io_threads_
    detached                \* dispatchers detached by shutdown() that still run

stopVars == <<stopped_, stopped_called_, block_stop_condition_, stop_caller_id_, stopping>>
lifeVars == <<userPc, starts, stopVars, io_stopped, shutdownPc, ioPc, detached>>
vars     == <<dispatchVars, lifeVars>>

Init ==
    /\ DispatchInit
    /\ is_dispatching_ = FALSE
    /\ pc = [t \in Threads |-> "done"] /\ role = [t \in Threads |-> "extra"]
    /\ dispatchers_ = {} /\ dispatchers_control_ = {} /\ dispatcher_counter_ = 0
    /\ userPc = "idle" /\ starts = 0
    /\ stopped_ = FALSE /\ stopped_called_ = FALSE /\ block_stop_condition_ = FALSE
    /\ io_stopped = FALSE /\ stop_caller_id_ = NoThread /\ stopping = {}
    /\ shutdownPc = "none" /\ ioPc = "none" /\ detached = {}

\* start_stop_mutex_ is free.
Unlocked == shutdownPc # "joinIo"

-----------------------------------------------------------------------------
(* start()                                                                 *)

\* stop() came first: start() releases it and returns.
StartTooLate ==
    /\ userPc = "idle" /\ starts < MaxStarts /\ Unlocked
    /\ stopped_
    /\ starts' = starts + 1
    /\ io_stopped' = FALSE
    /\ block_stop_condition_' = TRUE /\ stopped_' = FALSE
    /\ UNCHANGED <<dispatchVars, userPc, stopped_called_, stop_caller_id_, stopping, shutdownPc, ioPc, detached>>

\* Otherwise it starts the main dispatcher, the shutdown thread and the I/O thread.
Start ==
    /\ userPc = "idle" /\ starts < MaxStarts /\ Unlocked
    /\ ~stopped_
    /\ starts' = starts + 1
    /\ io_stopped' = FALSE
    /\ stopped_called_' = FALSE
    /\ is_dispatching_' = TRUE /\ elapse_unactive_dispatchers_' = FALSE
    /\ Unused # {} /\ Launch(NewThread, "main")
    /\ shutdownPc' = "wait" /\ ioPc' = "run" /\ userPc' = "io"
    /\ UNCHANGED <<queueVars, work, notified, running_dispatchers_, elapsed_dispatchers_, timerVars, inputVars,
                   stopped_, block_stop_condition_, stop_caller_id_, stopping, detached>>

\* io_.run() returned for good: the thread joins stop_thread_ ...
LeaveIo ==
    /\ userPc = "io" /\ io_stopped /\ stopped_ /\ creating = 0
    /\ userPc' = "join"
    /\ UNCHANGED <<dispatchVars, starts, stopVars, io_stopped, shutdownPc, ioPc, detached>>

JoinShutdown ==
    /\ userPc = "join" /\ shutdownPc = "done"
    /\ userPc' = "release" /\ shutdownPc' = "none"
    /\ UNCHANGED <<dispatchVars, starts, stopVars, io_stopped, ioPc, detached>>

\* ... releases stop() ...
Release ==
    /\ userPc = "release" /\ userPc' = "reset"
    /\ block_stop_condition_' = TRUE
    /\ UNCHANGED <<dispatchVars, starts, stopped_, stopped_called_, stop_caller_id_, stopping,
                   io_stopped, shutdownPc, ioPc, detached>>

\* ... and start() returns.
StartReturn ==
    /\ userPc = "reset" /\ userPc' = "idle"
    /\ stopped_' = FALSE
    /\ UNCHANGED <<dispatchVars, starts, stopped_called_, block_stop_condition_, stop_caller_id_, stopping,
                   io_stopped, shutdownPc, ioPc, detached>>

\* The user drops the handlers left over, as SomeipTunnel::start() does.
clear_all_handler ==
    /\ userPc = "idle" /\ handlers_ # <<>>
    /\ handlers_' = <<>>
    /\ UNCHANGED <<availability_handlers_, started, threadVars, setVars, flagVars, timerVars, inputVars, lifeVars>>

-----------------------------------------------------------------------------
(* stop()                                                                  *)

CalledBy(c) ==
    /\ Unlocked /\ ~stopped_called_
    /\ stop_caller_id_' = c
    /\ stopped_' = TRUE /\ stopped_called_' = TRUE

\* Called by a user thread or from a handler: it waits for start() to return ...
Stop(c) ==
    /\ c = User \/ (c \in Threads /\ pc[c] = "run")
    /\ c \notin stopping
    /\ CalledBy(c)
    /\ stopping' = stopping \cup {c}
    /\ UNCHANGED <<dispatchVars, userPc, starts, block_stop_condition_, io_stopped, shutdownPc, ioPc, detached>>

\* ... or for one second: long enough unless nothing was started or shutdown()
\* waits for a handler.
StopReturn(c) ==
    /\ c \in stopping
    /\ \/ block_stop_condition_ \/ userPc = "idle"
       \/ ~is_dispatching_ /\ \E t \in Threads : pc[t] = "run"
    /\ stopping' = stopping \ {c}
    /\ block_stop_condition_' = FALSE
    /\ UNCHANGED <<dispatchVars, userPc, starts, stopped_, stopped_called_, stop_caller_id_,
                   io_stopped, shutdownPc, ioPc, detached>>

\* The signal handler runs on the I/O thread and calls stop(), which does not
\* wait there.
Signal ==
    /\ Signals /\ ioPc = "run" /\ ~io_stopped
    /\ ioPc' = "stop"
    /\ UNCHANGED <<dispatchVars, userPc, starts, stopVars, io_stopped, shutdownPc, detached>>

StopFromSignal ==
    /\ ioPc = "stop" /\ ioPc' = "run"
    /\ \/ CalledBy(NoThread)
       \/ Unlocked /\ stopped_called_ /\ UNCHANGED <<stopped_, stopped_called_, stop_caller_id_>>
    /\ UNCHANGED <<dispatchVars, userPc, starts, block_stop_condition_, stopping, io_stopped, shutdownPc, detached>>

-----------------------------------------------------------------------------
(* shutdown()                                                              *)

\* It waits for stop() and ends dispatching ...
EndDispatching ==
    /\ shutdownPc = "wait" /\ stopped_called_
    /\ shutdownPc' = "join"
    /\ is_dispatching_' = FALSE
    /\ notified' = Waiting
    /\ UNCHANGED <<queueVars, pc, role, work, setVars, elapse_unactive_dispatchers_, timerVars, inputVars,
                   userPc, starts, stopVars, io_stopped, ioPc, detached>>

\* ... joins the dispatchers and forgets them; the detached stay in control ...
Join(joined, kept) ==
    /\ shutdownPc = "join" /\ shutdownPc' = "futures"
    /\ dispatchers_control_' = kept
    /\ dispatcher_counter_' = dispatcher_counter_ - Cardinality(joined)
    /\ dispatchers_' = {} /\ running_dispatchers_' = {} /\ elapsed_dispatchers_' = {}
    /\ availability_handlers_' = [s \in Services |-> <<>>]
    /\ detached' = detached \cup {t \in dispatchers_ \ joined : pc[t] # "done"}
    /\ UNCHANGED <<handlers_, started, threadVars, flagVars, timerVars, inputVars,
                   userPc, starts, stopVars, io_stopped, ioPc>>

\* Mutant: the future of the detached dispatcher is dropped as well.
JoinForgets ==
    LET joined == dispatchers_ \ {stop_caller_id_} IN
    /\ \A t \in joined : pc[t] = "done"
    /\ Join(joined, {})

\* Mutant: the dispatchers are not waited for.
JoinAtOnce ==
    LET joined == dispatchers_ \ {stop_caller_id_} IN Join(joined, dispatchers_control_ \ joined)

\* ... that is all of them but the caller of stop(), which is detached ...
JoinDispatchers ==
    LET joined == dispatchers_ \ {stop_caller_id_} IN
    /\ \A t \in joined : pc[t] = "done"
    /\ Join(joined, dispatchers_control_ \ joined)

\* ... waits for the detached one, or gives it up ...
AwaitDetached(t) ==
    /\ shutdownPc = "futures" /\ dispatcher_counter_ > 0
    /\ t \in dispatchers_control_ /\ (pc[t] = "done" \/ LongHandlers)
    /\ dispatchers_control_' = dispatchers_control_ \ {t}
    /\ dispatcher_counter_' = dispatcher_counter_ - 1
    /\ UNCHANGED <<queueVars, threadVars, dispatchers_, running_dispatchers_, elapsed_dispatchers_,
                   flagVars, timerVars, inputVars, lifeVars>>

\* ... stops the I/O context ...
StopIo ==
    /\ shutdownPc = "futures" /\ dispatcher_counter_ = 0
    /\ shutdownPc' = "stopped"
    /\ io_stopped' = TRUE
    /\ UNCHANGED <<dispatchVars, userPc, starts, stopVars, ioPc, detached>>

\* ... and joins the I/O thread, holding start_stop_mutex_.
LockForJoin ==
    /\ shutdownPc = "stopped" /\ shutdownPc' = "joinIo"
    /\ UNCHANGED <<dispatchVars, userPc, starts, stopVars, io_stopped, ioPc, detached>>

JoinIo ==
    /\ shutdownPc = "joinIo" /\ ioPc = "done"
    /\ shutdownPc' = "done" /\ ioPc' = "none"
    /\ UNCHANGED <<dispatchVars, userPc, starts, stopVars, io_stopped, detached>>

\* The I/O thread leaves its loop.
IoEnd ==
    /\ ioPc = "run" /\ io_stopped /\ stopped_ /\ creating = 0
    /\ ioPc' = "done"
    /\ UNCHANGED <<dispatchVars, userPc, starts, stopVars, io_stopped, shutdownPc, detached>>

-----------------------------------------------------------------------------
\* I/O threads queue handlers and serve timers while the context runs.
Io == ~io_stopped /\ userPc = "io" /\ (Input \/ AnnounceAvailability \/ TimerCallback)
          /\ UNCHANGED lifeVars

Expire(t) == ~io_stopped /\ TimerExpires(t) /\ UNCHANGED lifeVars

Create == (CreateDispatcher \/ CreateRefused) /\ UNCHANGED lifeVars

\* A dispatcher; a detached one is gone when it ends.
Work(t) ==
    /\ Dispatch(t)
    /\ detached' = IF pc'[t] = "done" THEN detached \ {t} ELSE detached
    /\ UNCHANGED <<userPc, starts, stopVars, io_stopped, shutdownPc, ioPc>>

Handle(t) == t \notin stopping /\ HandlerReturns(t) /\ UNCHANGED lifeVars

UserStep == Start \/ StartTooLate \/ LeaveIo \/ JoinShutdown \/ Release \/ StartReturn \/ clear_all_handler
ShutdownStep ==
    \/ EndDispatching \/ JoinDispatchers \/ StopIo \/ LockForJoin \/ JoinIo
    \/ \E t \in Threads : AwaitDetached(t)

Next ==
    \/ UserStep \/ ShutdownStep \/ IoEnd \/ Signal \/ StopFromSignal \/ Io \/ Create
    \/ \E c \in Threads \cup {User} : Stop(c) \/ StopReturn(c)
    \/ \E t \in Threads : Work(t) \/ Handle(t) \/ Expire(t)

Spec == Init /\ [][Next]_vars

(* Every thread that can go on does, handlers return; nobody has to start  *)
(* or to stop the application.                                             *)
Fairness ==
    /\ WF_vars(LeaveIo \/ JoinShutdown \/ Release \/ StartReturn)
    /\ WF_vars(ShutdownStep) /\ WF_vars(IoEnd) /\ WF_vars(StopFromSignal) /\ WF_vars(Create)
    /\ \A t \in Threads : WF_vars(Work(t)) /\ WF_vars(Handle(t)) /\ WF_vars(StopReturn(t))

FairSpec == Spec /\ Fairness

-----------------------------------------------------------------------------
(* Properties                                                              *)

\* When start() returns no dispatcher is inside its loop or a handler, unless
\* that handler itself called stop() (shutdown joins all others first).
NobodyLeftBehind ==
    userPc \in {"release", "reset", "idle"} => \A t \in Threads : pc[t] = "done" \/ t \in detached

\* shutdown() never waits for a counter that cannot reach 0: as long as
\* dispatcher_counter_ is positive there is a future to wait for.
FutureForEveryCount == dispatcher_counter_ = Cardinality(dispatchers_control_)

\* start() returns after a call of stop() (application.hpp:126), when handlers do.
StopEndsStart == stopped_called_ /\ userPc = "io" ~> userPc = "idle"
============================================================================
