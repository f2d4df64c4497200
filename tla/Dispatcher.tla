----------------------------- MODULE Dispatcher -----------------------------
(***************************************************************************)
(* How an application (application_impl) runs the callbacks of its user.   *)
(* I/O threads queue handlers; the main dispatcher runs them one by one.   *)
(* When a handler takes longer than max_dispatch_time_, a timer starts     *)
(* another dispatcher, up to max_dispatchers_; dispatchers that are not    *)
(* needed any more elapse, and are joined after the next handler.          *)
(*                                                                         *)
(* handlers_mutex_ makes each stretch of a dispatcher's loop between two   *)
(* unlocks one step; changes of running_dispatchers_, made under           *)
(* dispatcher_mutex_ alone, are steps of their own.  dispatcher_condition_ *)
(* is modelled with the set of threads notified, without spurious wakeups. *)
(***************************************************************************)
EXTENDS Naturals, Sequences, FiniteSets, SequencesExt

CONSTANTS
    Threads,         \* thread ids, reused after a join
    Services,        \* service instances
    MaxDispatchers,  \* max_dispatchers_: the configured number and the main one
    Kinds,           \* the types of handlers that are queued
    MaxHandlers,     \* bound on the handlers queued
    Prompt,          \* is max_dispatch_time_ always enough to enter the handler?
    NoHandler

ASSUME ThreadsAssumption == IsFiniteSet(Threads) /\ Threads # {}
ASSUME MaxDispatchersAssumption == MaxDispatchers \in Nat \ {0}
ASSUME KindsAssumption == Kinds \subseteq {"AVAILABILITY", "MESSAGE", "STATE"}
ASSUME MaxHandlersAssumption == MaxHandlers \in Nat
ASSUME PromptAssumption == Prompt \in BOOLEAN

VARIABLES
    handlers_,              \* queue of handlers, each with its number
    availability_handlers_, \* per service: the running availability handler and those behind it
    is_dispatching_,
    elapse_unactive_dispatchers_,
    dispatchers_,           \* threads the application knows
    running_dispatchers_,   \* those inside a handler
    elapsed_dispatchers_,   \* those that ended and wait for their join
    dispatchers_control_,   \* those whose future is kept
    dispatcher_counter_,
    pc, role, work,         \* per thread: place, main or extra, its handler
    notified,               \* waiting threads that were notified
    unannounced,            \* pushes whose notify_one is still to come
    armed,                  \* threads whose dispatch timer runs
    expired, creating,      \* timer callbacks before and after has_active_dispatcher
    queued,                 \* handlers queued so far
    started                 \* the handlers taken so far, in order

queueVars  == <<handlers_, availability_handlers_, started>>
threadVars == <<pc, role, work, notified>>
setVars    == <<dispatchers_, running_dispatchers_, elapsed_dispatchers_,
                dispatchers_control_, dispatcher_counter_>>
flagVars   == <<is_dispatching_, elapse_unactive_dispatchers_>>
timerVars  == <<armed, expired, creating>>
inputVars  == <<queued, unannounced>>
dispatchVars == <<queueVars, threadVars, setVars, flagVars, timerVars, inputVars>>

-----------------------------------------------------------------------------
Handlers == [type : {"AVAILABILITY", "MESSAGE", "STATE"}, si : Services, n : Nat]

Waiting == {t \in Threads : pc[t] = "wait"}

\* Ids a new thread may get: of threads that ended and were joined.
Unused == {t \in Threads : pc[t] = "done" /\ t \notin dispatchers_ \cup dispatchers_control_}
NewThread == CHOOSE t \in Unused : TRUE

Idle(t, known, elapsed) == t \in known /\ t \notin running_dispatchers_ \cup elapsed

\* Mutant: dispatchers inside a handler count as active.
AnyDispatcher == is_dispatching_ /\ dispatchers_ \ elapsed_dispatchers_ # {}

\* Is there a dispatcher that neither runs a handler nor elapsed?
has_active_dispatcher ==
    is_dispatching_ /\ \E d \in Threads : Idle(d, dispatchers_, elapsed_dispatchers_)

\* A dispatcher takes handlers only if no other one is idle.
is_active_dispatcher(t, known, elapsed) ==
    is_dispatching_ /\ \A d \in Threads \ {t} : ~Idle(d, known, elapsed)

\* Mutant: messages do not wait for an availability handler before them.
MessagesOvertake(s, h) ==
    IF s.next # NoHandler THEN [s EXCEPT !.queue = Append(@, h)]
    ELSE IF h.type = "AVAILABILITY" /\ s.pending[h.si] # <<>>
    THEN [s EXCEPT !.pending[h.si] = Append(@, h)]
    ELSE [s EXCEPT !.next = h, !.pending[h.si] = IF h.type = "AVAILABILITY" THEN <<h>> ELSE @]

\* get_next_handler, one element of the queue: it is the next handler, or it
\* has to wait behind the running availability handler of its service.
Scan(s, h) ==
    IF s.next # NoHandler THEN [s EXCEPT !.queue = Append(@, h)]
    ELSE IF \/ h.type = "AVAILABILITY" /\ s.pending[h.si] # <<>>
            \/ h.type = "MESSAGE" /\ Len(s.pending[h.si]) > 1
    THEN [s EXCEPT !.pending[h.si] = Append(@, h)]
    ELSE [s EXCEPT !.next = h, !.pending[h.si] = IF h.type = "AVAILABILITY" THEN <<h>> ELSE @]

get_next_handler(queue, pending) ==
    FoldLeft(Scan, [next |-> NoHandler, queue |-> <<>>, pending |-> pending], queue)

\* reschedule_availability_handler: what waited behind h returns to the front.
IsFront(h, pending) ==
    h.type = "AVAILABILITY" /\ pending[h.si] # <<>> /\ Head(pending[h.si]) = h

\* Mutant: what waited is dropped.
RequeueNothing(h, queue, pending) == queue

Requeued(h, queue, pending) ==
    IF IsFront(h, pending) THEN Tail(pending[h.si]) \o queue ELSE queue

Released(h, pending) ==
    IF IsFront(h, pending) THEN [pending EXCEPT ![h.si] = <<>>] ELSE pending

-----------------------------------------------------------------------------
Main(t) == role[t] = "main"

\* The dispatcher takes a handler, unlocks and arms its timer.
Take(t, s) ==
    /\ pc' = [pc EXCEPT ![t] = "taken"]
    /\ work' = [work EXCEPT ![t] = s.next]
    /\ started' = Append(started, s.next)
    /\ notified' = notified \ {t}
    /\ armed' = armed \cup {t}

\* The main dispatcher tells the others to elapse and waits.
MainWait(t) ==
    /\ pc' = [pc EXCEPT ![t] = "wait"]
    /\ elapse_unactive_dispatchers_' = TRUE
    /\ notified' = Waiting \ {t}
    /\ UNCHANGED <<started, armed>>

ExtraWait(t) ==
    /\ pc' = [pc EXCEPT ![t] = "wait"]
    /\ notified' = notified \ {t}
    /\ UNCHANGED <<started, armed>>

\* Mutant: the dispatcher leaves without waking the others.
ExitSilently(t) ==
    /\ pc' = [pc EXCEPT ![t] = "done"]
    /\ notified' = notified \ {t}
    /\ UNCHANGED <<started, armed>>

\* An extra dispatcher wakes the others when it leaves, the main one does not.
Exit(t) ==
    /\ pc' = [pc EXCEPT ![t] = "done"]
    /\ notified' = IF Main(t) THEN notified \ {t} ELSE Waiting \ {t}
    /\ UNCHANGED <<started, armed>>

\* The loops of main_dispatch and dispatch from a point where the lock is held
\* to the next unlock.  The arguments are the queues and the sets of threads
\* as they are after what the thread did first under that lock.
Loop(t, queue, pending, known, elapsed, elapse) ==
    LET active == is_active_dispatcher(t, known, elapsed)
        s      == get_next_handler(queue, pending)
    IN
    /\ IF active
       THEN handlers_' = s.queue /\ availability_handlers_' = s.pending
       ELSE handlers_' = queue /\ availability_handlers_' = pending
    /\ \/ /\ active /\ s.next # NoHandler
          /\ Take(t, s)
          /\ elapse_unactive_dispatchers_' = elapse
          /\ elapsed_dispatchers_' = elapsed
       \/ /\ ~active \/ s.next = NoHandler
          /\ UNCHANGED work
          /\ \/ /\ Main(t) /\ is_dispatching_
                /\ MainWait(t)
                /\ elapsed_dispatchers_' = elapsed
             \/ /\ ~Main(t) /\ active
                /\ ExtraWait(t)
                /\ elapse_unactive_dispatchers_' = elapse
                /\ elapsed_dispatchers_' = elapsed
             \/ /\ IF Main(t) THEN ~is_dispatching_ ELSE ~active
                /\ Exit(t)
                /\ elapse_unactive_dispatchers_' = elapse
                /\ elapsed_dispatchers_' = IF is_dispatching_ THEN elapsed \cup {t} ELSE elapsed

-----------------------------------------------------------------------------
(* Handlers are queued by I/O threads                                      *)

Push(type, s) ==
    /\ queued < MaxHandlers /\ type \in Kinds
    /\ queued' = queued + 1
    /\ handlers_' = Append(handlers_, [type |-> type, si |-> s, n |-> queued + 1])

notify_one ==
    IF Waiting \subseteq notified THEN UNCHANGED notified
    ELSE \E t \in Waiting \ notified : notified' = notified \cup {t}

\* on_message, on_state, watchdog_cbk: pushed and announced under one lock.
on_message(type, s) ==
    /\ Push(type, s)
    /\ notify_one
    /\ UNCHANGED <<availability_handlers_, started, pc, role, work, setVars, flagVars, timerVars, unannounced>>

\* on_availability announces under a second lock.
on_availability(s) ==
    /\ Push("AVAILABILITY", s)
    /\ unannounced' = unannounced + 1
    /\ UNCHANGED <<availability_handlers_, started, threadVars, setVars, flagVars, timerVars>>

AnnounceAvailability ==
    /\ unannounced > 0 /\ unannounced' = unannounced - 1
    /\ notify_one
    /\ UNCHANGED <<queueVars, pc, role, work, setVars, flagVars, timerVars, queued>>

-----------------------------------------------------------------------------
(* The loop of a dispatcher                                                *)

\* First pass, when the thread starts.
Enter(t) ==
    /\ pc[t] = "loop"
    /\ Loop(t, handlers_, availability_handlers_, dispatchers_, elapsed_dispatchers_,
            elapse_unactive_dispatchers_)
    /\ UNCHANGED <<role, dispatchers_, running_dispatchers_, dispatchers_control_, dispatcher_counter_,
                   is_dispatching_, expired, creating, inputVars>>

\* The predicate the thread waits for.
Awaited(t) ==
    \/ ~is_dispatching_
    \/ Main(t) /\ handlers_ # <<>> /\ is_active_dispatcher(t, dispatchers_, elapsed_dispatchers_)
    \/ ~Main(t) /\ (handlers_ # <<>> \/ elapse_unactive_dispatchers_)

WakeInVain(t) ==
    /\ t \in notified /\ ~Awaited(t)
    /\ notified' = notified \ {t}
    /\ UNCHANGED <<queueVars, pc, role, work, setVars, flagVars, timerVars, inputVars>>

\* An extra dispatcher woken from the main one elapses without telling anyone.
Superfluous(t) ==
    ~Main(t) /\ handlers_ = <<>> /\ ~is_active_dispatcher(t, dispatchers_, elapsed_dispatchers_)

Elapse(t) ==
    /\ t \in notified /\ Awaited(t) /\ Superfluous(t)
    /\ pc' = [pc EXCEPT ![t] = "done"]
    /\ notified' = notified \ {t}
    /\ elapsed_dispatchers_' = IF is_dispatching_ THEN elapsed_dispatchers_ \cup {t} ELSE elapsed_dispatchers_
    /\ UNCHANGED <<queueVars, role, work, dispatchers_, running_dispatchers_, dispatchers_control_,
                   dispatcher_counter_, flagVars, timerVars, inputVars>>

Wake(t) ==
    /\ t \in notified /\ Awaited(t) /\ ~Superfluous(t)
    /\ Loop(t, handlers_, availability_handlers_, dispatchers_, elapsed_dispatchers_,
            elapse_unactive_dispatchers_ /\ ~Main(t))
    /\ UNCHANGED <<role, dispatchers_, running_dispatchers_, dispatchers_control_, dispatcher_counter_,
                   is_dispatching_, expired, creating, inputVars>>

\* invoke_handler: the thread enters running_dispatchers_ and the handler, or,
\* when dispatching ended, skips both.
InvokeHandler(t) ==
    /\ pc[t] = "taken"
    /\ IF is_dispatching_
       THEN /\ pc' = [pc EXCEPT ![t] = "run"]
            /\ running_dispatchers_' = running_dispatchers_ \cup {t}
            /\ UNCHANGED armed
       ELSE /\ pc' = [pc EXCEPT ![t] = "back"]
            /\ armed' = armed \ {t}
            /\ UNCHANGED running_dispatchers_
    /\ UNCHANGED <<queueVars, role, work, notified, dispatchers_, elapsed_dispatchers_, dispatchers_control_,
                   dispatcher_counter_, flagVars, expired, creating, inputVars>>

\* The handler returns: the timer is cancelled, the thread leaves running_dispatchers_.
HandlerReturns(t) ==
    /\ pc[t] = "run"
    /\ pc' = [pc EXCEPT ![t] = "back"]
    /\ armed' = armed \ {t}
    /\ running_dispatchers_' = IF is_dispatching_ THEN running_dispatchers_ \ {t} ELSE running_dispatchers_
    /\ UNCHANGED <<queueVars, role, work, notified, dispatchers_, elapsed_dispatchers_, dispatchers_control_,
                   dispatcher_counter_, flagVars, expired, creating, inputVars>>

\* Back in the loop: the rest of the work on an availability handler, the join
\* of the elapsed dispatchers, and on with the loop.  (An elapsed thread that is
\* not known is dereferenced unchecked; nothing is said of what happens then.)
AfterHandler(t, counter, elapsed) ==
    /\ pc[t] = "back" /\ is_dispatching_
    /\ elapsed_dispatchers_ \subseteq dispatchers_
    /\ \A e \in elapsed_dispatchers_ : pc[e] = "done"
    /\ Loop(t, Requeued(work[t], handlers_, availability_handlers_),
            Released(work[t], availability_handlers_),
            dispatchers_ \ elapsed_dispatchers_, elapsed, elapse_unactive_dispatchers_)
    /\ dispatchers_' = dispatchers_ \ elapsed_dispatchers_
    /\ dispatchers_control_' = dispatchers_control_ \ elapsed_dispatchers_
    /\ dispatcher_counter_' = counter
    /\ UNCHANGED <<role, running_dispatchers_, is_dispatching_, expired, creating, inputVars>>

\* Mutant: elapsed_dispatchers_ is not cleared.
KeepsElapsed(t) ==
    AfterHandler(t, dispatcher_counter_ - Cardinality(elapsed_dispatchers_), elapsed_dispatchers_)

Return(t) == AfterHandler(t, dispatcher_counter_ - Cardinality(elapsed_dispatchers_), {})

\* Dispatching ended while the handler ran.
ReturnLate(t) ==
    /\ pc[t] = "back" /\ ~is_dispatching_
    /\ pc' = [pc EXCEPT ![t] = "done"]
    /\ UNCHANGED <<queueVars, role, work, notified, setVars, flagVars, timerVars, inputVars>>

-----------------------------------------------------------------------------
(* The dispatch timer of a handler                                         *)

TimerExpires(t) ==
    /\ t \in armed /\ (Prompt => pc[t] = "run")
    /\ armed' = armed \ {t}
    /\ expired' = expired + 1
    /\ UNCHANGED <<queueVars, threadVars, setVars, flagVars, creating, inputVars>>

\* Its callback notifies an idle dispatcher, if there is one ...
TimerCallback ==
    /\ expired > 0 /\ expired' = expired - 1
    /\ IF has_active_dispatcher
       THEN notified' = Waiting /\ UNCHANGED creating
       ELSE creating' = creating + 1 /\ UNCHANGED notified
    /\ UNCHANGED <<queueVars, pc, role, work, setVars, flagVars, armed, inputVars>>

\* Start a thread: it is known, its future kept, and counted.
Launch(t, kind) ==
    /\ pc' = [pc EXCEPT ![t] = "loop"]
    /\ role' = [role EXCEPT ![t] = kind]
    /\ dispatchers_' = dispatchers_ \cup {t}
    /\ dispatchers_control_' = dispatchers_control_ \cup {t}
    /\ dispatcher_counter_' = dispatcher_counter_ + 1

\* ... or else starts a new dispatcher, unless there are max_dispatchers_.
CreateDispatcher ==
    /\ creating > 0 /\ creating' = creating - 1
    /\ is_dispatching_ /\ Cardinality(dispatchers_) < MaxDispatchers
    /\ Unused # {} /\ Launch(NewThread, "extra")
    /\ UNCHANGED <<queueVars, work, notified, running_dispatchers_, elapsed_dispatchers_, flagVars,
                   armed, expired, inputVars>>

CreateRefused ==
    /\ creating > 0 /\ creating' = creating - 1
    /\ ~is_dispatching_ \/ Cardinality(dispatchers_) >= MaxDispatchers
    /\ UNCHANGED <<queueVars, threadVars, setVars, flagVars, armed, expired, inputVars>>

-----------------------------------------------------------------------------
(* An application that was started and is not stopped                      *)

MainId == CHOOSE t \in Threads : TRUE

DispatchInit ==
    /\ handlers_ = <<>> /\ availability_handlers_ = [s \in Services |-> <<>>] /\ started = <<>>
    /\ work = [t \in Threads |-> NoHandler] /\ notified = {}
    /\ running_dispatchers_ = {} /\ elapsed_dispatchers_ = {}
    /\ elapse_unactive_dispatchers_ = FALSE
    /\ armed = {} /\ expired = 0 /\ creating = 0
    /\ queued = 0 /\ unannounced = 0

RunningInit ==
    /\ DispatchInit
    /\ is_dispatching_ = TRUE
    /\ pc = [t \in Threads |-> IF t = MainId THEN "loop" ELSE "done"]
    /\ role = [t \in Threads |-> IF t = MainId THEN "main" ELSE "extra"]
    /\ dispatchers_ = {MainId} /\ dispatchers_control_ = {MainId} /\ dispatcher_counter_ = 1

Input ==
    \/ \E s \in Services : on_availability(s)
    \/ \E s \in Services, type \in {"MESSAGE", "STATE"} : on_message(type, s)

\* A dispatcher of an application that runs, and of one that may be stopped.
Serve(t) ==
    \/ Enter(t) \/ WakeInVain(t) \/ Elapse(t) \/ Wake(t)
    \/ InvokeHandler(t) \/ Return(t)

Dispatch(t) == Serve(t) \/ ReturnLate(t)

Timer == TimerCallback \/ CreateDispatcher \/ CreateRefused

DispatchNext ==
    \/ Input \/ AnnounceAvailability \/ Timer
    \/ \E t \in Threads : Serve(t) \/ HandlerReturns(t) \/ TimerExpires(t)

DispatcherSpec == RunningInit /\ [][DispatchNext]_dispatchVars

(* Dispatchers, timer callbacks and announcements go on running; whether   *)
(* handlers return is up to the user of the application.                   *)
DispatchFairness ==
    /\ \A t \in Threads : WF_dispatchVars(Serve(t)) /\ WF_dispatchVars(TimerExpires(t))
    /\ WF_dispatchVars(AnnounceAvailability)
    /\ WF_dispatchVars(Timer)

-----------------------------------------------------------------------------
(* Properties                                                              *)

Places == {"loop", "wait", "taken", "run", "back", "done"}

\* Busy with a handler, from get_next_handler to the end of invoke_handler.
Busy(t) == pc[t] \in {"taken", "run"}

\* Availability and message handlers of one service start in the order in
\* which they were queued, and two availability handlers of it never run at the
\* same time, however many dispatchers there are (get_next_handler holds them
\* back).
ServiceOrder ==
    /\ \A i, j \in DOMAIN started :
          /\ i < j /\ started[i].si = started[j].si
          /\ started[i].type # "STATE" /\ started[j].type # "STATE"
          => started[i].n < started[j].n
    /\ \A t, u \in Threads :
          t # u /\ Busy(t) /\ Busy(u) /\ work[t].type = "AVAILABILITY" /\ work[u].type = "AVAILABILITY"
          => work[t].si # work[u].si

\* Handlers held back behind the running availability handler of s.
Held(s) == IF availability_handlers_[s] = <<>> THEN <<>> ELSE Tail(availability_handlers_[s])
Numbers(q) == {q[i].n : i \in DOMAIN q}

\* No handler is lost or run twice: each one is queued, held back or started
\* (get_next_handler and reschedule_availability_handler move it around).
EveryHandlerOnce ==
    /\ Numbers(handlers_) \cup Numbers(started) \cup UNION {Numbers(Held(s)) : s \in Services} = 1..queued
    /\ Len(handlers_) + Len(started) + SumFunction([s \in Services |-> Len(Held(s))]) = queued

\* shutdown() waits until dispatcher_counter_ is 0, one future at a time: the
\* counter is the number of futures kept, never more than max_dispatchers_.
ThreadsCounted ==
    /\ dispatcher_counter_ = Cardinality(dispatchers_control_)
    /\ Cardinality(dispatchers_) <= MaxDispatchers

\* remove_elapsed_dispatchers looks up and joins threads that are known and
\* have left their loop.
ElapsedAreJoinable ==
    /\ elapsed_dispatchers_ \subseteq dispatchers_
    /\ \A t \in elapsed_dispatchers_ : pc[t] = "done"
============================================================================
