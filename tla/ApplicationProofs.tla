------------------------- MODULE ApplicationProofs --------------------------
(***************************************************************************)
(* Proofs about the dispatchers of an application and about its end: the   *)
(* count of the threads, the join of elapsed dispatchers, the futures      *)
(* shutdown() waits for, and the threads left when start() returns.        *)
(***************************************************************************)
EXTENDS Application, FiniteSetTheorems, TLAPS

-----------------------------------------------------------------------------
(* Dispatcher: the threads, their count, and that the join of elapsed       *)
(* dispatchers finds every thread it looks up                               *)

\* The threads known are among those whose future is kept, which are counted.
Counted ==
    /\ dispatchers_ \subseteq dispatchers_control_
    /\ dispatchers_control_ \subseteq Threads
    /\ dispatcher_counter_ = Cardinality(dispatchers_control_)

\* Only a waiting thread is notified.
Placed ==
    /\ pc \in [Threads -> Places]
    /\ notified \subseteq Waiting

-----------------------------------------------------------------------------
\* Sets of threads are finite and have a size.
LEMMA ThreadsFinite ==
    ASSUME NEW S, S \subseteq Threads
    PROVE  IsFiniteSet(S) /\ Cardinality(S) \in Nat
<1>1. IsFiniteSet(S)
  BY ThreadsAssumption, FS_Subset
<1> QED
  BY <1>1, FS_CardinalityType

\* Threads that leave a set of threads are subtracted from its size
\* (dispatcher_counter_ of remove_elapsed_dispatchers and shutdown).
LEMMA Subtracted ==
    ASSUME NEW S, NEW R, S \subseteq Threads, R \subseteq S
    PROVE  Cardinality(S \ R) = Cardinality(S) - Cardinality(R)
<1>1. IsFiniteSet(S) /\ Cardinality(S) \in Nat /\ Cardinality(R) \in Nat
  BY ThreadsFinite
<1>2. S \cap R = R
  OBVIOUS
<1>3. Cardinality(S \ R) = Cardinality(S) - Cardinality(S \cap R)
  BY <1>1, FS_Difference
<1> QED
  BY <1>2, <1>3

\* A new thread is added to the size of a set of threads (start and the timer
\* callback of invoke_handler).
LEMMA Added ==
    ASSUME NEW S, NEW t, S \subseteq Threads, t \notin S
    PROVE  Cardinality(S \cup {t}) = Cardinality(S) + 1
<1>1. IsFiniteSet(S)
  BY ThreadsFinite
<1> QED
  BY <1>1, FS_AddElement

\* The id of a new thread is not in use (Launch).
LEMMA NewThreadIsUnused ==
    ASSUME Unused # {}
    PROVE  /\ NewThread \in Threads /\ pc[NewThread] = "done"
           /\ NewThread \notin dispatchers_ /\ NewThread \notin dispatchers_control_
<1>1. NewThread \in Unused
  BY DEF NewThread
<1> QED
  BY <1>1 DEF Unused

-----------------------------------------------------------------------------
(* One pass of a dispatcher's loop                                         *)

\* A pass through the loop leaves the thread waiting, with a handler or ended,
\* and only a thread that ended is added to elapsed_dispatchers_.
LEMMA LoopEffect ==
    ASSUME NEW t \in Threads, NEW queue, NEW pending, NEW known, NEW elapsed, NEW elapse,
           notified \subseteq Waiting,
           Loop(t, queue, pending, known, elapsed, elapse)
    PROVE  /\ \E x \in {"taken", "wait", "done"} :
                  /\ pc' = [pc EXCEPT ![t] = x]
                  /\ \/ elapsed_dispatchers_' = elapsed
                     \/ x = "done" /\ elapsed_dispatchers_' = elapsed \cup {t}
           /\ notified' \subseteq Waiting \ {t}
<1> DEFINE active == is_active_dispatcher(t, known, elapsed)
           s      == get_next_handler(queue, pending)
<1> HIDE DEF active, s
<1>1. CASE Take(t, s) /\ elapsed_dispatchers_' = elapsed
  BY <1>1 DEF Take
<1>2. CASE MainWait(t) /\ elapsed_dispatchers_' = elapsed
  BY <1>2 DEF MainWait
<1>3. CASE ExtraWait(t) /\ elapsed_dispatchers_' = elapsed
  BY <1>3 DEF ExtraWait
<1>4. CASE Exit(t) /\ elapsed_dispatchers_' = IF is_dispatching_ THEN elapsed \cup {t} ELSE elapsed
  BY <1>4 DEF Exit
<1> QED
  BY <1>1, <1>2, <1>3, <1>4 DEF Loop, active, s

\* notify_one notifies a waiting thread.
LEMMA NotifyOneEffect ==
    ASSUME notified \subseteq Waiting, notify_one
    PROVE  notified' \subseteq Waiting
BY DEF notify_one

-----------------------------------------------------------------------------
(* The count of the threads                                                *)

\* A step of a dispatcher keeps the count right: the join subtracts the
\* threads it forgets (remove_elapsed_dispatchers).
LEMMA DispatchKeepsCount ==
    ASSUME NEW t \in Threads, Counted, Dispatch(t)
    PROVE  Counted'
<1>1. CASE Return(t)
  <2>1. /\ elapsed_dispatchers_ \subseteq dispatchers_
        /\ dispatchers_' = dispatchers_ \ elapsed_dispatchers_
        /\ dispatchers_control_' = dispatchers_control_ \ elapsed_dispatchers_
        /\ dispatcher_counter_' = dispatcher_counter_ - Cardinality(elapsed_dispatchers_)
    BY <1>1 DEF Return, AfterHandler
  <2>2. dispatcher_counter_' = Cardinality(dispatchers_control_')
    BY <2>1, Subtracted DEF Counted
  <2> QED
    BY <2>1, <2>2 DEF Counted
<1>2. CASE ~Return(t)
  <2>1. UNCHANGED <<dispatchers_, dispatchers_control_, dispatcher_counter_>>
    BY <1>2 DEF Dispatch, Serve, Enter, WakeInVain, Elapse, Wake, InvokeHandler, ReturnLate, setVars
  <2> QED
    BY <2>1 DEF Counted
<1> QED
  BY <1>1, <1>2

\* Starting a thread counts it (start, and the timer callback of invoke_handler).
LEMMA LaunchKeepsCount ==
    ASSUME NEW kind, Counted, Unused # {}, Launch(NewThread, kind)
    PROVE  Counted'
<1>1. NewThread \in Threads /\ NewThread \notin dispatchers_control_
  BY NewThreadIsUnused
<1>2. dispatcher_counter_' = Cardinality(dispatchers_control_')
  BY <1>1, Added DEF Counted, Launch
<1> QED
  BY <1>1, <1>2 DEF Counted, Launch

-----------------------------------------------------------------------------
(* The places of the threads                                               *)

\* A step of a dispatcher leaves only waiting threads notified.
LEMMA DispatchKeepsPlaces ==
    ASSUME NEW t \in Threads, Placed, Dispatch(t) \/ HandlerReturns(t)
    PROVE  Placed'
<1>1. CASE Enter(t) \/ Wake(t) \/ Return(t)
  <2>1. PICK queue, pending, known, elapsed, elapse : Loop(t, queue, pending, known, elapsed, elapse)
    BY <1>1 DEF Enter, Wake, Return, AfterHandler
  <2>2. /\ \E x \in {"taken", "wait", "done"} : pc' = [pc EXCEPT ![t] = x]
        /\ notified' \subseteq Waiting \ {t}
    BY <2>1, LoopEffect DEF Placed
  <2> QED
    BY <2>2 DEF Placed, Waiting, Places
<1>2. CASE WakeInVain(t)
  BY <1>2 DEF Placed, Waiting, WakeInVain
<1>3. CASE Elapse(t)
  BY <1>3 DEF Placed, Waiting, Places, Elapse
<1>4. CASE InvokeHandler(t)
  BY <1>4 DEF Placed, Waiting, Places, InvokeHandler
<1>5. CASE ReturnLate(t)
  BY <1>5 DEF Placed, Waiting, Places, ReturnLate
<1>6. CASE HandlerReturns(t)
  BY <1>6 DEF Placed, Waiting, Places, HandlerReturns
<1> QED
  BY <1>1, <1>2, <1>3, <1>4, <1>5, <1>6 DEF Dispatch, Serve

\* So does a handler that is queued (on_message, on_availability) ...
LEMMA InputKeepsPlaces ==
    ASSUME Placed, Input \/ AnnounceAvailability
    PROVE  Placed'
<1>1. pc' = pc /\ (notified' = notified \/ notify_one)
  BY DEF Input, AnnounceAvailability, on_availability, on_message, threadVars
<1>2. notified' \subseteq Waiting
  BY <1>1, NotifyOneEffect DEF Placed
<1> QED
  BY <1>1, <1>2 DEF Placed, Waiting

\* ... and the timer (invoke_handler).
LEMMA TimerKeepsPlaces ==
    ASSUME Placed, TimerCallback \/ CreateRefused \/ \E t \in Threads : TimerExpires(t)
    PROVE  Placed'
<1>1. pc' = pc /\ (notified' = notified \/ notified' = Waiting)
  BY DEF TimerCallback, CreateRefused, TimerExpires, threadVars
<1> QED
  BY <1>1 DEF Placed, Waiting

\* A new thread is not waiting.
LEMMA LaunchKeepsPlaces ==
    ASSUME NEW kind, Placed, Unused # {}, Launch(NewThread, kind), UNCHANGED notified
    PROVE  Placed'
<1>1. NewThread \in Threads /\ pc[NewThread] = "done"
  BY NewThreadIsUnused
<1> QED
  BY <1>1 DEF Placed, Launch, Waiting, Places

-----------------------------------------------------------------------------
(* The dispatchers of a running application                                *)

\* Threads that have not ended are known; elapsed ones are known and ended.
Known ==
    /\ \A t \in Threads : pc[t] # "done" => t \in dispatchers_
    /\ elapsed_dispatchers_ \subseteq dispatchers_
    /\ \A t \in elapsed_dispatchers_ : pc[t] = "done"

Bounded == Cardinality(dispatchers_) <= MaxDispatchers

DispatcherInv == Counted /\ Placed /\ Known /\ Bounded

\* It holds when the application has just been started.
LEMMA InitInv == RunningInit => DispatcherInv
<1> SUFFICES ASSUME RunningInit PROVE DispatcherInv
  OBVIOUS
<1> USE DEF RunningInit, DispatchInit
<1>1. MainId \in Threads
  BY ThreadsAssumption DEF MainId
<1>2. Cardinality({MainId}) = 1
  BY FS_Singleton
<1>3. Counted
  BY <1>1, <1>2 DEF Counted
<1>4. Placed
  BY <1>1 DEF Placed, Places
<1>5. Known
  BY <1>1 DEF Known
<1>6. Bounded
  BY <1>2, MaxDispatchersAssumption DEF Bounded
<1> QED
  BY <1>3, <1>4, <1>5, <1>6 DEF DispatcherInv

\* A thread that ends or elapses is a known one, and the join forgets only
\* threads that ended.
LEMMA DispatchKeepsKnown ==
    ASSUME NEW t \in Threads, Placed, Known, Dispatch(t) \/ HandlerReturns(t)
    PROVE  Known'
<1>1. CASE Enter(t) \/ Wake(t)
  <2>1. PICK queue, pending, elapse :
            Loop(t, queue, pending, dispatchers_, elapsed_dispatchers_, elapse)
    BY <1>1 DEF Enter, Wake
  <2>2. dispatchers_' = dispatchers_ /\ pc[t] # "done"
    BY <1>1 DEF Enter, Wake, Placed, Waiting
  <2>3. PICK x \in {"taken", "wait", "done"} :
            /\ pc' = [pc EXCEPT ![t] = x]
            /\ \/ elapsed_dispatchers_' = elapsed_dispatchers_
               \/ x = "done" /\ elapsed_dispatchers_' = elapsed_dispatchers_ \cup {t}
    BY <2>1, LoopEffect DEF Placed
  <2> QED
    BY <2>2, <2>3 DEF Known, Placed
<1>2. CASE Return(t)
  <2>1. PICK queue, pending, elapse :
            Loop(t, queue, pending, dispatchers_ \ elapsed_dispatchers_, {}, elapse)
    BY <1>2 DEF Return, AfterHandler
  <2>2. dispatchers_' = dispatchers_ \ elapsed_dispatchers_ /\ pc[t] = "back"
    BY <1>2 DEF Return, AfterHandler
  <2>3. PICK x \in {"taken", "wait", "done"} :
            /\ pc' = [pc EXCEPT ![t] = x]
            /\ elapsed_dispatchers_' = {} \/ (x = "done" /\ elapsed_dispatchers_' = {} \cup {t})
    BY <2>1, LoopEffect DEF Placed
  <2> QED
    BY <2>2, <2>3 DEF Known, Placed
<1>3. CASE WakeInVain(t)
  BY <1>3 DEF Known, WakeInVain, setVars
<1>4. CASE Elapse(t)
  BY <1>4 DEF Known, Placed, Waiting, Elapse
<1>5. CASE InvokeHandler(t)
  <2>1. pc[t] # "done" /\ UNCHANGED <<dispatchers_, elapsed_dispatchers_>>
    BY <1>5 DEF InvokeHandler
  <2>2. \E x : pc' = [pc EXCEPT ![t] = x]
    BY <1>5 DEF InvokeHandler
  <2> QED
    BY <2>1, <2>2 DEF Known, Placed
<1>6. CASE ReturnLate(t)
  BY <1>6 DEF Known, Placed, ReturnLate, setVars
<1>7. CASE HandlerReturns(t)
  BY <1>7 DEF Known, Placed, HandlerReturns
<1> QED
  BY <1>1, <1>2, <1>3, <1>4, <1>5, <1>6, <1>7 DEF Dispatch, Serve

\* Every step keeps the invariant.
LEMMA StepInv == DispatcherInv /\ [DispatchNext]_dispatchVars => DispatcherInv'
<1> SUFFICES ASSUME DispatcherInv, [DispatchNext]_dispatchVars PROVE DispatcherInv'
  OBVIOUS
<1> USE DEF DispatcherInv
<1>1. ASSUME NEW t \in Threads, Dispatch(t) PROVE DispatcherInv'
  <2>1. dispatchers_' \subseteq dispatchers_
    BY <1>1 DEF Dispatch, Serve, Enter, WakeInVain, Elapse, Wake, InvokeHandler, Return, AfterHandler, ReturnLate, setVars
  <2>2. dispatchers_ \subseteq Threads
    BY DEF Counted
  <2>3. /\ IsFiniteSet(dispatchers_) /\ Cardinality(dispatchers_) \in Nat
        /\ Cardinality(dispatchers_') \in Nat
    BY <2>1, <2>2, ThreadsFinite
  <2>4. Cardinality(dispatchers_') <= Cardinality(dispatchers_)
    BY <2>1, <2>3, FS_Subset
  <2>5. Bounded'
    BY <2>3, <2>4, MaxDispatchersAssumption DEF Bounded
  <2> QED
    BY <1>1, <2>5, DispatchKeepsCount, DispatchKeepsPlaces, DispatchKeepsKnown
<1>2. ASSUME NEW t \in Threads, HandlerReturns(t) PROVE DispatcherInv'
  <2>1. UNCHANGED <<dispatchers_, dispatchers_control_, dispatcher_counter_>>
    BY <1>2 DEF HandlerReturns
  <2> QED
    BY <1>2, <2>1, DispatchKeepsPlaces, DispatchKeepsKnown DEF Counted, Bounded
<1>3. CASE Input \/ AnnounceAvailability
  <2>1. UNCHANGED <<pc, setVars>>
    BY <1>3 DEF Input, AnnounceAvailability, on_availability, on_message, threadVars
  <2> QED
    BY <1>3, <2>1, InputKeepsPlaces DEF Counted, Bounded, Known, setVars
<1>4. CASE TimerCallback \/ CreateRefused \/ \E t \in Threads : TimerExpires(t)
  <2>1. UNCHANGED <<pc, setVars>>
    BY <1>4 DEF TimerCallback, CreateRefused, TimerExpires, threadVars
  <2> QED
    BY <1>4, <2>1, TimerKeepsPlaces DEF Counted, Bounded, Known, setVars
<1>5. CASE CreateDispatcher
  <2>1. /\ Unused # {} /\ Launch(NewThread, "extra")
        /\ Cardinality(dispatchers_) < MaxDispatchers
        /\ UNCHANGED <<notified, elapsed_dispatchers_>>
    BY <1>5 DEF CreateDispatcher
  <2>2. /\ NewThread \in Threads /\ pc[NewThread] = "done" /\ NewThread \notin dispatchers_
    BY <2>1, NewThreadIsUnused
  <2>3. dispatchers_ \subseteq Threads
    BY DEF Counted
  <2>4. Cardinality(dispatchers_ \cup {NewThread}) = Cardinality(dispatchers_) + 1
    BY <2>2, <2>3, Added
  <2>5. Cardinality(dispatchers_) \in Nat
    BY <2>3, ThreadsFinite
  <2>6. Bounded'
    BY <2>1, <2>4, <2>5, MaxDispatchersAssumption DEF Bounded, Launch
  <2>7. Known'
    BY <2>1, <2>2 DEF Known, Placed, Launch
  <2> QED
    BY <2>1, <2>6, <2>7, LaunchKeepsCount, LaunchKeepsPlaces
<1>6. CASE UNCHANGED dispatchVars
  BY <1>6 DEF dispatchVars, threadVars, setVars, Counted, Placed, Waiting, Known, Bounded
<1> QED
  BY <1>1, <1>2, <1>3, <1>4, <1>5, <1>6 DEF DispatchNext, Dispatch, Timer

\* The invariant holds in every behaviour of a running application.
THEOREM DispatcherInvariance == DispatcherSpec => []DispatcherInv
BY InitInv, StepInv, PTL DEF DispatcherSpec

\* dispatcher_counter_ is the number of futures kept, and there are never more
\* than max_dispatchers_ threads (application_impl::invoke_handler,
\* remove_elapsed_dispatchers).
THEOREM CountIsRight == DispatcherSpec => []ThreadsCounted
<1>1. DispatcherInv => ThreadsCounted
  BY DEF DispatcherInv, Counted, Bounded, ThreadsCounted
<1> QED
  BY <1>1, DispatcherInvariance, PTL

\* Every thread remove_elapsed_dispatchers looks up is known and has ended, so
\* that its join, made under handlers_mutex_, does not wait.
THEOREM JoinsAreSafe == DispatcherSpec => []ElapsedAreJoinable
<1>1. DispatcherInv => ElapsedAreJoinable
  BY DEF DispatcherInv, Known, ElapsedAreJoinable
<1> QED
  BY <1>1, DispatcherInvariance, PTL

-----------------------------------------------------------------------------
(* Application: shutdown() and the return of start()                       *)

\* Once shutdown() joined the dispatchers none is known, and dispatching has
\* ended until the next start(); start() returns only after shutdown().
Phases ==
    /\ shutdownPc \notin {"none", "wait"} => ~is_dispatching_
    /\ shutdownPc = "none" => ~is_dispatching_
    /\ shutdownPc \notin {"wait", "join"} => dispatchers_ = {}
    /\ userPc \in {"release", "reset", "idle"} <=> shutdownPc = "none"

\* A thread that has not ended is known or was detached; those known have not
\* been detached.
Tracked ==
    \A t \in Threads : pc[t] # "done" => t \in dispatchers_ \/ t \in detached

AppInv == Counted /\ Placed /\ Phases /\ Tracked

-----------------------------------------------------------------------------
\* It holds before the first start().
LEMMA AppInitInv == Init => AppInv
<1> SUFFICES ASSUME Init PROVE AppInv
  OBVIOUS
<1> USE DEF Init, DispatchInit
<1>1. Cardinality({}) = 0
  BY FS_EmptySet
<1>2. Counted
  BY <1>1 DEF Counted
<1>3. Placed
  BY DEF Placed, Places
<1>4. Phases /\ Tracked
  BY DEF Phases, Tracked
<1> QED
  BY <1>2, <1>3, <1>4 DEF AppInv

\* start() knows the thread it starts, and shutdown() has not yet run.
LEMMA StartKeeps ==
    ASSUME AppInv, Start
    PROVE  AppInv'
<1>1. /\ Unused # {} /\ Launch(NewThread, "main")
      /\ UNCHANGED <<notified, detached>>
      /\ shutdownPc' = "wait" /\ userPc' = "io"
  BY DEF Start
<1>2. NewThread \in Threads
  BY <1>1, NewThreadIsUnused
<1>3. Counted' /\ Placed'
  BY <1>1, LaunchKeepsCount, LaunchKeepsPlaces DEF AppInv
<1>4. Phases'
  BY <1>1 DEF Phases
<1>5. Tracked'
  BY <1>1, <1>2 DEF AppInv, Tracked, Launch, Placed
<1> QED
  BY <1>3, <1>4, <1>5 DEF AppInv

\* shutdown() forgets threads that ended and detaches the others.
LEMMA JoinKeeps ==
    ASSUME AppInv, JoinDispatchers
    PROVE  AppInv'
<1> DEFINE joined == dispatchers_ \ {stop_caller_id_}
<1>1. /\ \A t \in joined : pc[t] = "done"
      /\ shutdownPc = "join" /\ shutdownPc' = "futures"
      /\ dispatchers_control_' = dispatchers_control_ \ joined
      /\ dispatcher_counter_' = dispatcher_counter_ - Cardinality(joined)
      /\ dispatchers_' = {}
      /\ detached' = detached \cup {t \in dispatchers_ \ joined : pc[t] # "done"}
      /\ UNCHANGED <<pc, notified, is_dispatching_, userPc>>
  BY DEF JoinDispatchers, Join, threadVars, flagVars
<1>2. joined \subseteq dispatchers_
  OBVIOUS
<1> HIDE DEF joined
<1>3. Counted'
  <2>1. dispatcher_counter_' = Cardinality(dispatchers_control_')
    BY <1>1, <1>2, Subtracted DEF AppInv, Counted
  <2> QED
    BY <1>1, <2>1 DEF AppInv, Counted
<1>4. Placed'
  BY <1>1 DEF AppInv, Placed, Waiting
<1>5. Phases'
  BY <1>1 DEF AppInv, Phases
<1>6. Tracked'
  BY <1>1 DEF AppInv, Tracked
<1> QED
  BY <1>3, <1>4, <1>5, <1>6 DEF AppInv

\* A future shutdown() has waited for is no longer counted.
LEMMA AwaitKeeps ==
    ASSUME NEW t \in Threads, AppInv, AwaitDetached(t)
    PROVE  AppInv'
<1>1. /\ shutdownPc = "futures" /\ t \in dispatchers_control_
      /\ dispatchers_control_' = dispatchers_control_ \ {t}
      /\ dispatcher_counter_' = dispatcher_counter_ - 1
      /\ UNCHANGED <<pc, notified, dispatchers_, is_dispatching_, userPc, shutdownPc, detached>>
  BY DEF AwaitDetached, threadVars, flagVars, lifeVars
<1>2. dispatchers_ = {}
  BY <1>1 DEF AppInv, Phases
<1>3. Cardinality({t}) = 1
  BY FS_Singleton
<1>4. dispatcher_counter_' = Cardinality(dispatchers_control_')
  BY <1>1, <1>3, Subtracted DEF AppInv, Counted
<1> QED
  BY <1>1, <1>2, <1>4 DEF AppInv, Counted, Placed, Waiting, Phases, Tracked

\* A dispatcher that makes a step has not ended, and forgets only threads that
\* have (remove_elapsed_dispatchers).
LEMMA DispatchMoves ==
    ASSUME NEW t \in Threads, Placed, Dispatch(t) \/ HandlerReturns(t)
    PROVE  /\ pc[t] # "done" /\ \E x : pc' = [pc EXCEPT ![t] = x]
           /\ dispatchers_' \subseteq dispatchers_
           /\ \A u \in dispatchers_ : pc[u] # "done" => u \in dispatchers_'
           /\ UNCHANGED is_dispatching_
<1>1. CASE Enter(t) \/ Wake(t)
  <2>1. PICK queue, pending, known, elapsed, elapse : Loop(t, queue, pending, known, elapsed, elapse)
    BY <1>1 DEF Enter, Wake
  <2>2. \E x : pc' = [pc EXCEPT ![t] = x]
    BY <2>1, LoopEffect DEF Placed
  <2> QED
    BY <1>1, <2>2 DEF Enter, Wake, Placed, Waiting
<1>2. CASE Return(t)
  <2>1. PICK queue, pending, known, elapsed, elapse : Loop(t, queue, pending, known, elapsed, elapse)
    BY <1>2 DEF Return, AfterHandler
  <2>2. \E x : pc' = [pc EXCEPT ![t] = x]
    BY <2>1, LoopEffect DEF Placed
  <2>3. /\ pc[t] = "back" /\ dispatchers_' = dispatchers_ \ elapsed_dispatchers_
        /\ \A e \in elapsed_dispatchers_ : pc[e] = "done"
        /\ UNCHANGED is_dispatching_
    BY <1>2 DEF Return, AfterHandler
  <2> QED
    BY <2>2, <2>3
<1>3. CASE WakeInVain(t)
  <2>1. pc' = [pc EXCEPT ![t] = pc[t]]
    BY <1>3 DEF WakeInVain, Placed
  <2> QED
    BY <1>3, <2>1 DEF WakeInVain, Placed, Waiting, setVars, flagVars
<1>4. CASE Elapse(t)
  BY <1>4 DEF Elapse, Placed, Waiting, flagVars
<1>5. CASE InvokeHandler(t)
  BY <1>5 DEF InvokeHandler, flagVars
<1>6. CASE ReturnLate(t)
  BY <1>6 DEF ReturnLate, setVars, flagVars
<1>7. CASE HandlerReturns(t)
  BY <1>7 DEF HandlerReturns, flagVars
<1> QED
  BY <1>1, <1>2, <1>3, <1>4, <1>5, <1>6, <1>7 DEF Dispatch, Serve

\* A dispatcher stays tracked until it ends (main_dispatch, dispatch).
LEMMA WorkKeeps ==
    ASSUME NEW t \in Threads, AppInv, Work(t) \/ Handle(t)
    PROVE  AppInv'
<1>1. /\ Dispatch(t) \/ HandlerReturns(t)
      /\ UNCHANGED <<shutdownPc, userPc>>
  BY DEF Work, Handle, lifeVars
<1>2. /\ pc[t] # "done" /\ \E x : pc' = [pc EXCEPT ![t] = x]
      /\ dispatchers_' \subseteq dispatchers_
      /\ \A u \in dispatchers_ : pc[u] # "done" => u \in dispatchers_'
      /\ UNCHANGED is_dispatching_
  BY <1>1, DispatchMoves DEF AppInv
<1>3. Counted'
  <2>1. CASE Dispatch(t)
    BY <2>1, DispatchKeepsCount DEF AppInv
  <2>2. CASE HandlerReturns(t)
    BY <2>2 DEF HandlerReturns, AppInv, Counted
  <2> QED
    BY <1>1, <2>1, <2>2
<1>4. Placed'
  BY <1>1, DispatchKeepsPlaces DEF AppInv
<1>5. Phases'
  BY <1>1, <1>2 DEF AppInv, Phases
<1>6. Tracked'
  <2> SUFFICES ASSUME NEW u \in Threads, pc'[u] # "done"
               PROVE  u \in dispatchers_' \/ u \in detached'
    BY DEF Tracked
  <2>1. pc[u] # "done"
    BY <1>2 DEF AppInv, Placed
  <2>2. u \in detached => u \in detached'
    BY DEF Work, Handle, lifeVars
  <2> QED
    BY <1>2, <2>1, <2>2 DEF AppInv, Tracked
<1> QED
  BY <1>3, <1>4, <1>5, <1>6 DEF AppInv

\* A dispatcher is added only while dispatching, so never behind shutdown()'s back.
LEMMA CreateKeeps ==
    ASSUME AppInv, CreateDispatcher, UNCHANGED lifeVars
    PROVE  AppInv'
<1>1. /\ Unused # {} /\ Launch(NewThread, "extra") /\ is_dispatching_
      /\ UNCHANGED <<notified, is_dispatching_, detached, userPc, shutdownPc>>
  BY DEF CreateDispatcher, flagVars, lifeVars
<1>2. NewThread \in Threads
  BY <1>1, NewThreadIsUnused
<1>3. Counted' /\ Placed'
  BY <1>1, LaunchKeepsCount, LaunchKeepsPlaces DEF AppInv
<1>4. Phases'
  BY <1>1 DEF AppInv, Phases
<1>5. Tracked'
  BY <1>1, <1>2 DEF AppInv, Tracked, Launch, Placed
<1> QED
  BY <1>3, <1>4, <1>5 DEF AppInv

\* Queueing a handler and the timer of one leave the threads alone.
LEMMA IoKeeps ==
    ASSUME AppInv, UNCHANGED lifeVars,
           \/ Input \/ AnnounceAvailability \/ TimerCallback \/ CreateRefused
           \/ \E t \in Threads : TimerExpires(t)
    PROVE  AppInv'
<1>1. Placed'
  BY InputKeepsPlaces, TimerKeepsPlaces DEF AppInv
<1>2. UNCHANGED <<pc, dispatchers_, dispatchers_control_, dispatcher_counter_, is_dispatching_>>
  BY DEF Input, AnnounceAvailability, TimerCallback, CreateRefused, TimerExpires, on_availability,
         on_message, threadVars, setVars, flagVars
<1>3. UNCHANGED <<detached, userPc, shutdownPc>>
  BY DEF lifeVars
<1> QED
  BY <1>1, <1>2, <1>3 DEF AppInv, Counted, Phases, Tracked

\* The other steps of start(), stop() and shutdown() touch no thread.
LEMMA LifeKeeps ==
    ASSUME AppInv,
           \/ StartTooLate \/ LeaveIo \/ JoinShutdown \/ Release \/ StartReturn \/ clear_all_handler
           \/ EndDispatching \/ StopIo \/ LockForJoin \/ JoinIo \/ IoEnd \/ Signal \/ StopFromSignal
           \/ \E c \in Threads \cup {User} : Stop(c) \/ StopReturn(c)
           \/ UNCHANGED vars
    PROVE  AppInv'
<1>1. UNCHANGED <<pc, dispatchers_, dispatchers_control_, dispatcher_counter_, detached>>
  BY DEF StartTooLate, LeaveIo, JoinShutdown, Release, StartReturn, clear_all_handler, EndDispatching,
         StopIo, LockForJoin, JoinIo, IoEnd, Signal, StopFromSignal, Stop, StopReturn, vars, dispatchVars,
         threadVars, setVars, lifeVars
<1>2. notified' = notified \/ notified' = Waiting
  BY DEF StartTooLate, LeaveIo, JoinShutdown, Release, StartReturn, clear_all_handler, EndDispatching,
         StopIo, LockForJoin, JoinIo, IoEnd, Signal, StopFromSignal, Stop, StopReturn, vars, dispatchVars,
         threadVars
<1>3. is_dispatching_' = is_dispatching_ \/ ~is_dispatching_'
  BY DEF StartTooLate, LeaveIo, JoinShutdown, Release, StartReturn, clear_all_handler, EndDispatching,
         StopIo, LockForJoin, JoinIo, IoEnd, Signal, StopFromSignal, Stop, StopReturn, vars, dispatchVars,
         flagVars
<1>4. CASE UNCHANGED <<userPc, shutdownPc>>
  BY <1>1, <1>2, <1>3, <1>4 DEF AppInv, Counted, Placed, Waiting, Phases, Tracked
<1>5. CASE ~UNCHANGED <<userPc, shutdownPc>>
  <2>1. \/ LeaveIo \/ JoinShutdown \/ Release \/ StartReturn
        \/ EndDispatching \/ StopIo \/ LockForJoin \/ JoinIo
    BY <1>5 DEF StartTooLate, clear_all_handler, IoEnd, Signal, StopFromSignal, Stop, StopReturn,
                vars, lifeVars
  <2>2. Phases'
    BY <1>1, <1>3, <2>1 DEF AppInv, Phases, LeaveIo, JoinShutdown, Release, StartReturn, EndDispatching,
       StopIo, LockForJoin, JoinIo
  <2> QED
    BY <1>1, <1>2, <2>2 DEF AppInv, Counted, Placed, Waiting, Tracked
<1> QED
  BY <1>4, <1>5

\* Every step keeps the invariant.
LEMMA AppStepInv == AppInv /\ [Next]_vars => AppInv'
<1> SUFFICES ASSUME AppInv, [Next]_vars PROVE AppInv'
  OBVIOUS
<1>1. CASE UserStep
  BY <1>1, StartKeeps, LifeKeeps DEF UserStep
<1>2. CASE ShutdownStep
  BY <1>2, JoinKeeps, AwaitKeeps, LifeKeeps DEF ShutdownStep
<1>3. CASE IoEnd \/ Signal \/ StopFromSignal
  BY <1>3, LifeKeeps
<1>4. CASE Io
  BY <1>4, IoKeeps DEF Io
<1>5. CASE Create
  BY <1>5, CreateKeeps, IoKeeps DEF Create
<1>6. CASE \E c \in Threads \cup {User} : Stop(c) \/ StopReturn(c)
  BY <1>6, LifeKeeps
<1>7. CASE \E t \in Threads : Work(t) \/ Handle(t)
  BY <1>7, WorkKeeps
<1>8. CASE \E t \in Threads : Expire(t)
  BY <1>8, IoKeeps DEF Expire
<1>9. CASE UNCHANGED vars
  BY <1>9, LifeKeeps
<1> QED
  BY <1>1, <1>2, <1>3, <1>4, <1>5, <1>6, <1>7, <1>8, <1>9 DEF Next

\* The invariant holds in every behaviour, over any number of starts and stops.
THEOREM AppInvariance == Spec => []AppInv
BY AppInitInv, AppStepInv, PTL DEF Spec

\* shutdown() counts exactly the futures it can wait for.
THEOREM ShutdownCanFinish == Spec => []FutureForEveryCount
<1>1. AppInv => FutureForEveryCount
  BY DEF AppInv, Counted, FutureForEveryCount
<1> QED
  BY <1>1, AppInvariance, PTL

\* When start() returns, every dispatcher has ended except one that was
\* detached because its handler called stop().
THEOREM StartLeavesNobody == Spec => []NobodyLeftBehind
<1>1. AppInv => NobodyLeftBehind
  BY DEF AppInv, Phases, Tracked, NobodyLeftBehind
<1> QED
  BY <1>1, AppInvariance, PTL
=============================================================================
