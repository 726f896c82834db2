-------------------------- MODULE EventLoopProofs --------------------------
(***************************************************************************)
(* Theorems about EventLoop, for any notifications in any number.          *)
(***************************************************************************)
EXTENDS EventLoop, SequenceTheorems, TLAPS

(* Besides the types: the batch is empty outside its handling, and the     *)
(* joins of shutdown have waited for the threads.                          *)
IInv ==
  /\ TypeOK
  /\ Fifo
  /\ loopPc \notin Handling => batch = <<>>
  /\ stopPc \in {"joinLoop", "stopped"} => cleanupPc = "done"
  /\ stopPc = "stopped" => loopPc = "done"

LEMMA InitIInv == Init => IInv
BY DEF Init, IInv, TypeOK, Fifo, LoopStages, CleanupStages, StopStages, Handling

(* An event appended to the queue is appended to the whole history. *)
LEMMA AppendLast ==
  ASSUME TypeOK, NEW e \in Events
  PROVE  Append(handled \o batch \o m_eventQueue, e)
           = handled \o batch \o Append(m_eventQueue, e)
<1> DEFINE front == handled \o batch
<1>1. front \in Seq(Events) /\ m_eventQueue \in Seq(Events) /\ <<e>> \in Seq(Events)
  BY DEF TypeOK
<1> HIDE DEF front
<1>2. front \o m_eventQueue \in Seq(Events)
  BY <1>1
<1>3. /\ Append(m_eventQueue, e) = m_eventQueue \o <<e>>
      /\ Append(front \o m_eventQueue, e) = (front \o m_eventQueue) \o <<e>>
  BY <1>1, <1>2, AppendIsConcat
<1>4. (front \o m_eventQueue) \o <<e>> = front \o (m_eventQueue \o <<e>>)
  BY <1>1, ConcatAssociative
<1>5. Append(front \o m_eventQueue, e) = front \o Append(m_eventQueue, e)
  BY <1>3, <1>4
<1>. QED
  BY <1>5 DEF front

(* Moving the head of the batch to the end of the handled events. *)
LEMMA MoveHead ==
  ASSUME NEW S, NEW a \in Seq(S), NEW b \in Seq(S), NEW c \in Seq(S), b # <<>>
  PROVE  /\ Append(a, Head(b)) \o Tail(b) \o c = a \o b \o c
         /\ Append(a, Head(b)) \in Seq(S)
         /\ Tail(b) \in Seq(S)
<1>1. /\ Head(b) \in S /\ Tail(b) \in Seq(S) /\ <<Head(b)>> \in Seq(S)
      /\ <<Head(b)>> \o Tail(b) = b
  OBVIOUS
<1>2. Append(a, Head(b)) = a \o <<Head(b)>>
  BY <1>1, AppendIsConcat
<1>3. (a \o <<Head(b)>>) \o Tail(b) = a \o (<<Head(b)>> \o Tail(b))
  BY <1>1, ConcatAssociative
<1>. QED
  BY <1>1, <1>2, <1>3

LEMMA StepIInv == IInv /\ [Next]_vars => IInv'
<1> SUFFICES ASSUME IInv, [Next]_vars PROVE IInv'
  OBVIOUS
<1> USE DEF IInv, TypeOK, LoopStages, CleanupStages, StopStages, Handling
<1>1. CASE AddMessageToEventQueue
  <2>1. PICK e \in Events : /\ m_eventQueue' = Append(m_eventQueue, e)
                            /\ received' = Append(received, e)
    BY <1>1 DEF AddMessageToEventQueue
  <2>2. Fifo'
    <3>1. Append(handled \o batch \o m_eventQueue, e)
            = handled \o batch \o Append(m_eventQueue, e)
      BY AppendLast
    <3>2. UNCHANGED <<handled, batch>>
      BY <1>1 DEF AddMessageToEventQueue
    <3>. QED
      BY <2>1, <3>1, <3>2 DEF Fifo
  <2>. QED
    BY <1>1, <2>1, <2>2 DEF AddMessageToEventQueue
<1>2. CASE TestRunLoop \/ LockQueue \/ TestPredicate \/ Block \/ SpuriousWakeup
  BY <1>2 DEF TestRunLoop, LockQueue, TestPredicate, Block, SpuriousWakeup, Fifo
<1>3. CASE TakeBatch
  <2>1. CASE m_runLoop /\ m_eventQueue # <<>>
    <3>1. batch = <<>> /\ batch' = m_eventQueue /\ m_eventQueue' = <<>>
      BY <1>3, <2>1 DEF TakeBatch
    <3>2. Fifo'
      BY <1>3, <3>1, ConcatEmptySeq DEF Fifo, TakeBatch
    <3>. QED
      BY <1>3, <2>1, <3>1, <3>2 DEF TakeBatch
  <2>2. CASE ~(m_runLoop /\ m_eventQueue # <<>>)
    BY <1>3, <2>2 DEF TakeBatch, Fifo
  <2>. QED
    BY <2>1, <2>2
<1>4. CASE StartHandler
  BY <1>4, MoveHead DEF StartHandler, Fifo
<1>5. CASE HandlerReturns \/ BatchDone
  BY <1>5 DEF HandlerReturns, BatchDone, Fifo
<1>6. CASE RunCleanupLoop
  BY <1>6 DEF RunCleanupLoop, loopVars, Fifo
<1>7. CASE BeginShutdown \/ Shutdown
  BY <1>7 DEF BeginShutdown, Shutdown, NotifyLoop, JoinCleanup, JoinLoop,
              loopVars, Fifo
<1>8. CASE UNCHANGED vars
  BY <1>8 DEF vars, Fifo
<1>. QED
  BY <1>1, <1>2, <1>3, <1>4, <1>5, <1>6, <1>7, <1>8 DEF Next, RunEventLoop

LEMMA Invariant == Spec => []IInv
BY InitIInv, StepIInv, PTL DEF Spec

(* Every variable keeps its type. *)
THEOREM TypeCorrect == Spec => []TypeOK
<1>1. IInv => TypeOK
  BY DEF IInv
<1>. QED
  BY <1>1, Invariant, PTL

(* Every notification that arrived is handled, in the batch or in the      *)
(* queue, exactly once and in order of arrival.                            *)
THEOREM FifoAlways == Spec => []Fifo
<1>1. IInv => Fifo
  BY DEF IInv
<1>. QED
  BY <1>1, Invariant, PTL

(* After shutdown has returned neither of the two threads runs, and no     *)
(* event is left half-way.                                                 *)
THEOREM QuietAfterShutdownAlways == Spec => []QuietAfterShutdown
<1>1. IInv => QuietAfterShutdown
  BY DEF IInv, QuietAfterShutdown, Handling
<1>. QED
  BY <1>1, Invariant, PTL

-----------------------------------------------------------------------------
(* The refinement of EventOrder, step by step.                             *)

(* The next event of the batch is the next one in order of arrival. *)
LEMMA NextInOrder ==
  ASSUME IInv, batch # <<>>
  PROVE  /\ Len(handled) < Len(received)
         /\ Head(batch) = received[Len(handled) + 1]
<1> DEFINE rest == batch \o m_eventQueue
<1>1. /\ handled \in Seq(Events) /\ batch \in Seq(Events)
      /\ m_eventQueue \in Seq(Events)
  BY DEF IInv, TypeOK
<1>2. received = handled \o rest
  BY <1>1, ConcatAssociative DEF IInv, Fifo
<1>3. /\ rest \in Seq(Events) /\ Len(rest) = Len(batch) + Len(m_eventQueue)
      /\ rest[1] = batch[1]
      /\ Len(batch) \in Nat \ {0} /\ Len(m_eventQueue) \in Nat
      /\ Head(batch) = batch[1]
  BY <1>1
<1> HIDE DEF rest
<1>4. Len(handled) \in Nat /\ Len(handled) + 1 \in 1 .. Len(handled) + Len(rest)
  BY <1>1, <1>3
<1>5. Len(received) = Len(handled) + Len(rest)
  BY ONLY <1>1, <1>2, <1>3, ConcatProperties, Zenon
<1>6. received[Len(handled) + 1] = rest[Len(handled) + 1 - Len(handled)]
  <2>1. \A i \in 1 .. Len(handled) + Len(rest) :
          received[i] = IF i <= Len(handled) THEN handled[i]
                                             ELSE rest[i - Len(handled)]
    BY ONLY <1>1, <1>2, <1>3, ConcatProperties, Zenon
  <2>. QED
    BY <1>4, <2>1
<1>7. rest[Len(handled) + 1 - Len(handled)] = rest[1]
  BY <1>4
<1>. QED
  BY <1>3, <1>4, <1>5, <1>6, <1>7

LEMMA OrderStep ==
  ASSUME IInv, [Next]_vars
  PROVE  [Order!Next]_(Order!vars)
<1>1. ASSUME UNCHANGED <<received, handled, m_runLoop>>
      PROVE  UNCHANGED Order!vars
  BY <1>1 DEF Order!vars
<1>2. CASE AddMessageToEventQueue
  BY <1>2 DEF AddMessageToEventQueue, Order!Next, Order!Arrive
<1>3. CASE StartHandler
  <2>1. Order!Handle
    BY <1>3, NextInOrder DEF StartHandler, Order!Handle
  <2>. QED
    BY <2>1 DEF Order!Next
<1>4. CASE RunEventLoop /\ ~StartHandler
  BY <1>1, <1>4
     DEF RunEventLoop, TestRunLoop, LockQueue, TestPredicate, Block, TakeBatch,
         HandlerReturns, BatchDone
<1>5. CASE BeginShutdown
  <2>1. m_runLoop = TRUE \/ UNCHANGED m_runLoop
    BY <1>5 DEF BeginShutdown, IInv, TypeOK
  <2>2. CASE m_runLoop
    <3>1. Order!Close
      BY <1>5, <2>2 DEF BeginShutdown, Order!Close, loopVars
    <3>. QED
      BY <3>1 DEF Order!Next
  <2>3. CASE UNCHANGED m_runLoop
    BY <1>1, <1>5, <2>3 DEF BeginShutdown, loopVars
  <2>. QED
    BY <2>1, <2>2, <2>3
<1>6. CASE SpuriousWakeup \/ RunCleanupLoop \/ Shutdown \/ UNCHANGED vars
  BY <1>1, <1>6
     DEF SpuriousWakeup, RunCleanupLoop, Shutdown, NotifyLoop, JoinCleanup,
         JoinLoop, loopVars, vars
<1>. QED
  BY <1>2, <1>3, <1>4, <1>5, <1>6 DEF Next

(* The event loop starts handlers in the order and number that EventOrder  *)
(* allows.                                                                 *)
THEOREM EventLoopRefinesOrder == Spec => StepsAsEventOrder
<1>1. Init => Order!Init
  BY DEF Init, Order!Init
<1>2. IInv /\ [Next]_vars => [Order!Next]_(Order!vars)
  BY OrderStep
<1>. QED
  BY <1>1, <1>2, Invariant, PTL DEF Spec, StepsAsEventOrder

=============================================================================
