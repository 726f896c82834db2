----------------------------- MODULE EventLoop -----------------------------
(***************************************************************************)
(* The queue of Thunder's notifications, the thread that handles them, the *)
(* clean-up thread and the shutdown of both (ResponseHandler.cpp).         *)
(*                                                                         *)
(* The websocket thread appends to m_eventQueue; the event loop takes the  *)
(* whole queue as a batch and runs the handlers of the batch without       *)
(* holding m_eventMutex.  shutdown clears m_runLoop, which is not          *)
(* protected by a mutex, wakes the event loop and joins both threads.      *)
(*                                                                         *)
(* A thread that holds m_eventMutex over several steps is recorded in      *)
(* eventMutex; a section that does not read anything another thread can    *)
(* change meanwhile is one step, taken when the mutex is free.             *)
(***************************************************************************)
EXTENDS Sequences, Naturals

CONSTANTS Events,     \* notifications
          MaxEvents   \* bound: notifications received

ASSUME EventLoopAssumption == MaxEvents \in Nat

VARIABLES
  m_eventQueue,  \* notifications not yet taken by the loop
  m_runLoop,     \* FALSE once shutdown has begun
  eventMutex,    \* holder of m_eventMutex: "none" or "loop"
  loopPc,        \* where the event loop is
  batch,         \* the notifications taken and not yet handled
  cleanupPc,     \* where the clean-up thread is
  stopPc,        \* where the thread that calls shutdown is
  received,      \* history: the notifications that arrived
  handled        \* history: the notifications whose handler was started

loopVars == <<eventMutex, loopPc, batch, handled>>
vars == <<m_eventQueue, m_runLoop, eventMutex, loopPc, batch, cleanupPc,
          stopPc, received, handled>>

Handling == {"batch", "handler"}
LoopStages == {"test", "lock", "predicate", "block", "asleep", "take", "done"} \cup Handling
CleanupStages == {"test", "sleep", "sweep", "done"}
StopStages == {"running", "notify", "joinCleanup", "joinLoop", "stopped"}

TypeOK ==
  /\ m_eventQueue \in Seq(Events)
  /\ m_runLoop \in BOOLEAN
  /\ eventMutex \in {"none", "loop"}
  /\ loopPc \in LoopStages
  /\ batch \in Seq(Events)
  /\ cleanupPc \in CleanupStages
  /\ stopPc \in StopStages
  /\ received \in Seq(Events)
  /\ handled \in Seq(Events)

Init ==
  /\ m_eventQueue = <<>>
  /\ m_runLoop = TRUE
  /\ eventMutex = "none"
  /\ loopPc = "test"
  /\ batch = <<>>
  /\ cleanupPc = "test"
  /\ stopPc = "running"
  /\ received = <<>>
  /\ handled = <<>>

-----------------------------------------------------------------------------
(* The websocket thread. *)

(* Fault: the loop is not notified. *)
AddMessageToEventQueue_NoNotify ==
  /\ Len(received) < MaxEvents
  /\ eventMutex = "none"
  /\ \E e \in Events : /\ m_eventQueue' = Append(m_eventQueue, e)
                       /\ received' = Append(received, e)
  /\ UNCHANGED <<m_runLoop, loopVars, cleanupPc, stopPc>>

(* emplace_back and notify_one under the mutex. *)
AddMessageToEventQueue ==
  /\ Len(received) < MaxEvents
  /\ eventMutex = "none"
  /\ \E e \in Events : /\ m_eventQueue' = Append(m_eventQueue, e)
                       /\ received' = Append(received, e)
  /\ loopPc' = IF loopPc = "asleep" THEN "lock" ELSE loopPc
  /\ UNCHANGED <<m_runLoop, eventMutex, batch, handled, cleanupPc, stopPc>>

-----------------------------------------------------------------------------
(* The event loop. *)

(* while (m_runLoop), read without the mutex. *)
TestRunLoop ==
  /\ loopPc = "test"
  /\ loopPc' = IF m_runLoop THEN "lock" ELSE "done"
  /\ UNCHANGED <<m_eventQueue, m_runLoop, eventMutex, batch, cleanupPc,
                 stopPc, received, handled>>

(* Lock the mutex, at first or on waking up in m_eventCV.wait. *)
LockQueue ==
  /\ loopPc = "lock"
  /\ eventMutex = "none"
  /\ eventMutex' = "loop"
  /\ loopPc' = "predicate"
  /\ UNCHANGED <<m_eventQueue, m_runLoop, batch, cleanupPc, stopPc, received,
                 handled>>

(* The predicate of m_eventCV.wait. *)
TestPredicate ==
  /\ loopPc = "predicate"
  /\ loopPc' = IF m_eventQueue # <<>> \/ ~m_runLoop THEN "take" ELSE "block"
  /\ UNCHANGED <<m_eventQueue, m_runLoop, eventMutex, batch, cleanupPc,
                 stopPc, received, handled>>

(* Release the mutex and block, atomically. *)
Block ==
  /\ loopPc = "block"
  /\ loopPc' = "asleep"
  /\ eventMutex' = "none"
  /\ UNCHANGED <<m_eventQueue, m_runLoop, batch, cleanupPc, stopPc, received,
                 handled>>

SpuriousWakeup ==
  /\ loopPc = "asleep"
  /\ loopPc' = "lock"
  /\ UNCHANGED <<m_eventQueue, m_runLoop, eventMutex, batch, cleanupPc,
                 stopPc, received, handled>>

(* Fault: the batch is not the queue but an element of it. *)
TakeBatch_Element ==
  /\ loopPc = "take"
  /\ IF m_runLoop /\ m_eventQueue # <<>>
     THEN /\ batch' = Head(m_eventQueue)
          /\ m_eventQueue' = Tail(m_eventQueue)
          /\ loopPc' = "batch"
     ELSE /\ loopPc' = IF m_runLoop THEN "test" ELSE "done"
          /\ UNCHANGED <<m_eventQueue, batch>>
  /\ eventMutex' = "none"
  /\ UNCHANGED <<m_runLoop, cleanupPc, stopPc, received, handled>>

(* Fault: one event is taken and the rest of the queue is cleared. *)
TakeBatch_First ==
  /\ loopPc = "take"
  /\ IF m_runLoop /\ m_eventQueue # <<>>
     THEN /\ batch' = <<Head(m_eventQueue)>>
          /\ m_eventQueue' = <<>>
          /\ loopPc' = "batch"
     ELSE /\ loopPc' = IF m_runLoop THEN "test" ELSE "done"
          /\ UNCHANGED <<m_eventQueue, batch>>
  /\ eventMutex' = "none"
  /\ UNCHANGED <<m_runLoop, cleanupPc, stopPc, received, handled>>

(* Leave if m_runLoop is false by now, otherwise move the queue away; the  *)
(* mutex is released in both cases.                                        *)
TakeBatch ==
  /\ loopPc = "take"
  /\ IF m_runLoop /\ m_eventQueue # <<>>
     THEN /\ batch' = m_eventQueue
          /\ m_eventQueue' = <<>>
          /\ loopPc' = "batch"
     ELSE /\ loopPc' = IF m_runLoop THEN "test" ELSE "done"
          /\ UNCHANGED <<m_eventQueue, batch>>
  /\ eventMutex' = "none"
  /\ UNCHANGED <<m_runLoop, cleanupPc, stopPc, received, handled>>

(* processEvent for the next event of the batch: the handler is started.   *)
StartHandler ==
  /\ loopPc = "batch"
  /\ batch # <<>>
  /\ handled' = Append(handled, Head(batch))
  /\ batch' = Tail(batch)
  /\ loopPc' = "handler"
  /\ UNCHANGED <<m_eventQueue, m_runLoop, eventMutex, cleanupPc, stopPc, received>>

(* The handler returns; its remote calls all do (CallReturns in            *)
(* ResponseHandler).                                                       *)
HandlerReturns ==
  /\ loopPc = "handler"
  /\ loopPc' = "batch"
  /\ UNCHANGED <<m_eventQueue, m_runLoop, eventMutex, batch, cleanupPc,
                 stopPc, received, handled>>

BatchDone ==
  /\ loopPc = "batch"
  /\ batch = <<>>
  /\ loopPc' = "test"
  /\ UNCHANGED <<m_eventQueue, m_runLoop, eventMutex, batch, cleanupPc,
                 stopPc, received, handled>>

RunEventLoop ==
  \/ TestRunLoop \/ LockQueue \/ TestPredicate \/ Block \/ TakeBatch
  \/ StartHandler \/ HandlerReturns \/ BatchDone

-----------------------------------------------------------------------------
(* The clean-up thread: test m_runLoop, sleep for CLEANUP_INTERVAL, test   *)
(* again, sweep (see CleanupExpiredRequests in ResponseHandler).           *)
RunCleanupLoop ==
  /\ \/ cleanupPc = "test" /\ cleanupPc' = IF m_runLoop THEN "sleep" ELSE "done"
     \/ cleanupPc = "sleep" /\ cleanupPc' = IF m_runLoop THEN "sweep" ELSE "done"
     \/ cleanupPc = "sweep" /\ cleanupPc' = "test"
  /\ UNCHANGED <<m_eventQueue, m_runLoop, loopVars, stopPc, received>>

-----------------------------------------------------------------------------
(* shutdown, called once by ThunderInterface::shutdown. *)

BeginShutdown ==
  /\ stopPc = "running"
  /\ m_runLoop' = FALSE
  /\ stopPc' = "notify"
  /\ UNCHANGED <<m_eventQueue, loopVars, cleanupPc, received>>

(* Fault: notify_all without the mutex. *)
NotifyLoop_Unlocked ==
  /\ stopPc = "notify"
  /\ loopPc' = IF loopPc = "asleep" THEN "lock" ELSE loopPc
  /\ stopPc' = "joinCleanup"
  /\ UNCHANGED <<m_eventQueue, m_runLoop, eventMutex, batch, cleanupPc,
                 received, handled>>

(* m_eventCV.notify_all under m_eventMutex.  (Nobody waits on m_requestCV, *)
(* which is notified before.)                                              *)
NotifyLoop ==
  /\ stopPc = "notify"
  /\ eventMutex = "none"
  /\ loopPc' = IF loopPc = "asleep" THEN "lock" ELSE loopPc
  /\ stopPc' = "joinCleanup"
  /\ UNCHANGED <<m_eventQueue, m_runLoop, eventMutex, batch, cleanupPc,
                 received, handled>>

JoinCleanup ==
  /\ stopPc = "joinCleanup"
  /\ cleanupPc = "done"
  /\ stopPc' = "joinLoop"
  /\ UNCHANGED <<m_eventQueue, m_runLoop, loopVars, cleanupPc, received>>

(* Fault: the event loop is left to end on its own. *)
JoinLoop_Detached ==
  /\ stopPc = "joinLoop"
  /\ stopPc' = "stopped"
  /\ UNCHANGED <<m_eventQueue, m_runLoop, loopVars, cleanupPc, received>>

JoinLoop ==
  /\ stopPc = "joinLoop"
  /\ loopPc = "done"
  /\ stopPc' = "stopped"
  /\ UNCHANGED <<m_eventQueue, m_runLoop, loopVars, cleanupPc, received>>

Shutdown == NotifyLoop \/ JoinCleanup \/ JoinLoop

-----------------------------------------------------------------------------
Next ==
  \/ AddMessageToEventQueue
  \/ RunEventLoop
  \/ SpuriousWakeup
  \/ RunCleanupLoop
  \/ BeginShutdown
  \/ Shutdown

(* The scheduler runs every thread that can run.  Nothing has to arrive,   *)
(* and nobody has to call shutdown.                                        *)
Fairness ==
  /\ WF_vars(RunEventLoop)
  /\ WF_vars(RunCleanupLoop)
  /\ WF_vars(Shutdown)

Spec == Init /\ [][Next]_vars /\ Fairness

-----------------------------------------------------------------------------
(* Every notification that arrived is in exactly one place, and in order:  *)
(* none is lost, handled twice or overtaken when the loop swaps the queue  *)
(* away while the websocket thread appends to it.                          *)
Fifo == received = handled \o batch \o m_eventQueue

(* Once shutdown has returned, no handler runs or will be started, the     *)
(* clean-up thread is gone, and what was dropped is a tail of the events:  *)
(* a batch that was taken is handled to its end.                           *)
QuietAfterShutdown ==
  stopPc = "stopped" => loopPc = "done" /\ cleanupPc = "done" /\ batch = <<>>

(* shutdown returns: the loop cannot miss the notification that is to wake *)
(* it, although m_runLoop is written without the mutex.                    *)
ShutdownReturns == (stopPc = "notify") ~> (stopPc = "stopped")

(* The loop is the ordered, exactly-once delivery that EventOrder          *)
(* specifies, including that events are handled while the program runs.    *)
Order == INSTANCE EventOrder WITH
             sent <- received, got <- handled, open <- m_runLoop

ImplementsEventOrder == Order!Spec

(* Its part without fairness. *)
StepsAsEventOrder == Order!Init /\ [][Order!Next]_(Order!vars)
=============================================================================
